---------------------------- MODULE Spec2Model ----------------------------
(***************************************************************************)
(* A model of the fixed-length time series of tempsdb: the chunk files     *)
(* (normal layout with a footer, direct/gzip layout without), the chunk    *)
(* handles, the series with its open-chunk cache and reference counts, and *)
(* the range iterator.                                                     *)
(*                                                                         *)
(* Files are sequences of bytes; index k of a Python bytes object is       *)
(* element k+1 of the sequence.  Timestamps of the model stay below 2^24,  *)
(* so only the three low bytes of a packed timestamp are ever non-zero.    *)
(***************************************************************************)
EXTENDS Integers, Sequences, FiniteSets, TLC

\* ------------------------------------------------------------------ bounds
MaxTs == 3          \* timestamps offered to append / iterate_range / trim: 0..MaxTs
MaxAppends == 3     \* accepted appends per behaviour
MaxM == 2           \* max_entries_per_chunk is drawn from 1..MaxM
MaxHandles == 4     \* live Chunk objects
MaxIters == 1       \* Iterator objects alive at a time
MaxRefs == 2        \* reference counts stay within -MaxRefs..MaxRefs
MaxChunkAppends == 3 \* appends to a chunk opened on its own

\* ------------------------------------------------------- program constants
HEADER_SIZE == 4
TIMESTAMP_SIZE == 8
FOOTER_SIZE == 4
UINT_MAX == 2147483647     \* the largest unsigned int; 2^31-1 stands for 2^32-1,
                           \* every index of the model being far below both

\* ------------------------------------------------------- series parameters
BlockSizes == {1}          \* block_size of the series created
PageSizes == {8}          \* page_size of the series created
ByteVals == {1, 2}         \* payload bytes offered to append

NoChunk == 0               \* a null Chunk reference (handle ids start at 1)
NoHandle == [name |-> -1]  \* an unused slot of the handle heap
BigTs == 256 * 65536       \* stands for any unpacked value >= 2^24
NoFile == << >>            \* the content of a path that does not exist

Timestamps == 0 .. MaxTs
HandleIds == 1 .. MaxHandles
IterIds == 1 .. MaxIters

\* ------------------------------------------------------------ byte helpers
RECURSIVE Zeros(_)
Zeros(n) == IF n <= 0 THEN << >> ELSE <<0>> \o Zeros(n - 1)

RECURSIVE Fill(_, _)
Fill(b, n) == IF n <= 0 THEN << >> ELSE <<b>> \o Fill(b, n - 1)

\* struct.Struct('<Q').pack / Struct('<L').pack: little-endian, k bytes
RECURSIVE PackLE(_, _)
PackLE(n, k) == IF k = 0 THEN << >> ELSE <<n % 256>> \o PackLE(n \div 256, k - 1)

\* struct unpack of a little-endian unsigned; -1 stands for struct.error
\* (the slice was shorter than the format)
UnpackLE(b, k) ==
    IF Len(b) # k THEN -1
    ELSE IF \E j \in 4 .. k : b[j] # 0 THEN BigTs
    ELSE b[1] + 256 * b[2] + 65536 * b[3]

\* Python's f[a:b] on bytes / mmap: clamped to the length of f
Slice(f, a, b) ==
    LET hi == IF b > Len(f) THEN Len(f) ELSE b
    IN  IF a >= hi THEN << >> ELSE SubSeq(f, a + 1, hi)


\* unsigned int arithmetic at the two places where it can wrap
UIntDec(x) == IF x = 0 THEN UINT_MAX ELSE x - 1
UIntInc(x) == IF x = UINT_MAX THEN 0 ELSE x + 1

\* ------------------------------------------------------------- chunk files
block_size_plus(bs) == bs + TIMESTAMP_SIZE

\* create_chunk: the bytes written to the new file
NewChunkFile(timestamp, data, page_size, use_direct_mode) ==
    LET head == PackLE(Len(data), 4) \o PackLE(timestamp, 8) \o data
        bytes_to_pad == page_size - (Len(head) % page_size)
        footer == Zeros(page_size - 4) \o <<1, 0, 0, 0>>
    IN  IF use_direct_mode THEN head
        ELSE head \o Zeros(bytes_to_pad) \o footer

\* Chunk.get_timestamp_at on the bytes f of a chunk with block size bs
TimestampAt(f, bs, index) ==
    LET starting_index == HEADER_SIZE + index * block_size_plus(bs)
    IN  UnpackLE(Slice(f, starting_index, starting_index + TIMESTAMP_SIZE), 8)

\* the payload part of Chunk.get_piece_at / get_value_at
ValueAt(f, bs, index) ==
    LET starting_index == HEADER_SIZE + TIMESTAMP_SIZE + index * block_size_plus(bs)
    IN  Slice(f, starting_index, starting_index + bs)

\* Chunk.__init__ followed by after_init (normal layout) or
\* DirectChunk.after_init (direct layout): the handle built from a file
OpenHandle(f, page_size, is_direct) ==
    LET file_size == Len(f)
        bs == UnpackLE(Slice(f, 0, HEADER_SIZE), 4)
        min_ts == UnpackLE(Slice(f, HEADER_SIZE, HEADER_SIZE + TIMESTAMP_SIZE), 8)
        n_entries == IF is_direct
                     THEN (file_size - HEADER_SIZE) \div block_size_plus(bs)
                     ELSE UnpackLE(Slice(f, file_size - FOOTER_SIZE, file_size), 4)
    IN  [name |-> min_ts,
         min_ts |-> min_ts,
         max_ts |-> IF is_direct
                    THEN UnpackLE(Slice(f, file_size - block_size_plus(bs),
                                        file_size - bs), 8)
                    ELSE IF n_entries = 0
                    THEN -1     \* get_timestamp_at(UINT_MAX): an empty slice
                    ELSE TimestampAt(f, bs, n_entries - 1),
         block_size |-> bs,
         entries |-> n_entries,
         file_size |-> file_size,
         pointer |-> IF is_direct THEN file_size
                     ELSE n_entries * block_size_plus(bs) + HEADER_SIZE,
         page_size |-> page_size,
         is_direct |-> is_direct,
         descriptor |-> is_direct,  \* AlternativeMMap instead of mmap: the series
                                    \* asks for it for its direct chunks only
         attached |-> TRUE,     \* parent is not None
         closed |-> FALSE,      \* Chunk.closed
         open |-> TRUE]         \* mmap and file are open

\* NormalChunk.extend: one more page, whose last four bytes carry entries
ExtendFile(f, h) ==
    f \o Zeros(h.page_size - FOOTER_SIZE) \o PackLE(h.entries, 4)

\* mmap[a:a+len(v)] = v.  A slice that reaches past the end of an mmap raises
\* IndexError; AlternativeMMap seeks and writes, so the file grows.
Fits(f, h, a, v) == h.descriptor \/ a + Len(v) <= Len(f)

WriteGrow(f, a, v) ==
    Slice(f, 0, a) \o Zeros(a - Len(f)) \o v \o Slice(f, a + Len(v), Len(f))

\* NormalChunk.append: <<file, handle, outcome>> after the append
NormalAppend(f, h, timestamp, data) ==
    LET bsp == block_size_plus(h.block_size)
        ext == h.pointer >= h.file_size - FOOTER_SIZE - bsp
        f1 == IF ext THEN ExtendFile(f, h) ELSE f
        fs == IF ext THEN h.file_size + h.page_size ELSE h.file_size
        h1 == [h EXCEPT !.file_size = fs]
        ptr_end == h.pointer + TIMESTAMP_SIZE
        ts == PackLE(timestamp, 8)
        f2 == WriteGrow(f1, h.pointer, ts)
        f3 == WriteGrow(f2, ptr_end, data)
        f4 == WriteGrow(f3, fs - FOOTER_SIZE, PackLE(h.entries + 1, 4))
    IN  IF ~Fits(f1, h, h.pointer, ts) THEN <<f1, h1, "IndexError">>
        ELSE IF ~Fits(f2, h, ptr_end, data) THEN <<f2, h1, "IndexError">>
        ELSE <<f4, [h1 EXCEPT !.entries = h.entries + 1,
                              !.max_ts = timestamp,
                              !.pointer = h.pointer + bsp], "ok">>

\* DirectChunk.append: <<file, handle, outcome>> after the append
DirectAppend(f, h, timestamp, data) ==
    LET bsp == block_size_plus(h.block_size)
    IN  <<f \o PackLE(timestamp, 8) \o data,
          [h EXCEPT !.file_size = h.file_size + bsp,
                    !.pointer = h.pointer + bsp,
                    !.entries = h.entries + 1], "ok">>

\* Chunk.append as dispatched on the layout of the chunk.  A chunk of the
\* normal layout appends as NormalChunk does, also when create_chunk made it:
\* maker.pyx constructs it through the name Chunk, whose own append is abstract
\* in base.pyx.
ChunkAppend(f, h, timestamp, data) ==
    IF h.is_direct THEN DirectAppend(f, h, timestamp, data)
    ELSE NormalAppend(f, h, timestamp, data)

\* Chunk.find_left: bisection over the entries of handle h on bytes f
RECURSIVE BisectLeft(_, _, _, _, _)
BisectLeft(f, bs, timestamp, lo, hi) ==
    IF lo < hi
    THEN LET mid == (lo + hi) \div 2
         IN  IF TimestampAt(f, bs, mid) < timestamp
             THEN BisectLeft(f, bs, timestamp, mid + 1, hi)
             ELSE BisectLeft(f, bs, timestamp, lo, mid)
    ELSE lo

find_left(f, h, timestamp) == BisectLeft(f, h.block_size, timestamp, 0, h.entries)

\* Chunk.find_right
RECURSIVE BisectRight(_, _, _, _, _)
BisectRight(f, bs, timestamp, lo, hi) ==
    IF lo < hi
    THEN LET mid == (lo + hi) \div 2
         IN  IF timestamp < TimestampAt(f, bs, mid)
             THEN BisectRight(f, bs, timestamp, lo, mid)
             ELSE BisectRight(f, bs, timestamp, mid + 1, hi)
    ELSE lo

\* find_right with the comparison of find_left: the record at the upper bound
\* of the range falls outside
find_right_exclusive(f, h, timestamp) == BisectLeft(f, h.block_size, timestamp, 0, h.entries)

find_right(f, h, timestamp) == BisectRight(f, h.block_size, timestamp, 0, h.entries)


\* ------------------------------------------------------------- dictionaries
EmptyDict == [k \in {} |-> 0]
DictSet(d, k, v) == [x \in (DOMAIN d) \cup {k} |-> IF x = k THEN v ELSE d[x]]
DictDel(d, k) == [x \in (DOMAIN d) \ {k} |-> d[x]]
Range(q) == {q[k] : k \in DOMAIN q}

\* ---------------------------------------------------------------- the state
VARIABLES
    closed,                 \* TimeSeries.closed
    gzip_level,             \* TimeSeries.gzip_level
    cy3,                    \* the build: TRUE when compiled by Cython 3, where
                            \* extension types run __del__ and an exception raised in
                            \* a cdef function without an except clause propagates
    max_entries_per_chunk,  \* TimeSeries.max_entries_per_chunk
    block_size,             \* TimeSeries.block_size
    page_size,              \* TimeSeries.page_size
    chunks,                 \* TimeSeries.chunks: <<min_ts, is_direct, is_gzip>>, ascending
    open_chunks,            \* TimeSeries.open_chunks: name -> handle id
    refs_chunks,            \* TimeSeries.refs_chunks: name -> count
    last_chunk,             \* TimeSeries.last_chunk: handle id or NoChunk
    last_entry_ts,          \* TimeSeries.last_entry_ts
    files,                  \* the chunk files of the series directory: name -> bytes
    handles,                \* the Chunk objects: handle id -> fields
    iters,                  \* the Iterator objects
    obs,                    \* history, per Iterator: the call that made it and what it returned
    appended,               \* history: the records of the appends that returned normally
    res,                    \* history: the outcome of the last call
    varlen,                 \* the VarlenSeries object and its sub-series, or NoVarlen
    viters,                 \* the VarlenIterator objects
    threads                 \* the threads inside a call: where each one is, its locals

vars == <<closed, cy3, gzip_level, max_entries_per_chunk, block_size, page_size, chunks,
          open_chunks, refs_chunks, last_chunk, last_entry_ts, files, handles,
          iters, obs, appended, res, varlen, viters, threads>>

\* what no method of TimeSeries, Chunk or Iterator run by a single caller
\* changes: the parameters of the series and the build, the objects layered on
\* top of the series, the other threads
settings == <<cy3, gzip_level, max_entries_per_chunk, block_size, page_size,
              varlen, viters>>
params == <<settings, threads>>

\* no VarlenSeries, no VarlenIterator and no thread inside a call
NoVarlen == [st |-> "none"]
Alone ==
    /\ varlen = NoVarlen
    /\ viters = << >>
    /\ threads = << >>

\* an Iterator slot nobody holds
NoIter == [st |-> "none"]
NoObs == [out |-> << >>, done |-> FALSE, refs0 |-> EmptyDict, expect |-> << >>,
          range |-> <<0, 0>>,
          whole |-> FALSE]

\* create_series followed by TimeSeries.__init__ on the fresh directory
InitSeriesOf(sizes) ==
    /\ closed = FALSE
    /\ gzip_level \in {0, 1}
    /\ cy3 \in BOOLEAN
    /\ max_entries_per_chunk \in sizes
    /\ block_size \in BlockSizes
    /\ page_size \in PageSizes
    /\ chunks = << >>
    /\ open_chunks = EmptyDict
    /\ refs_chunks = EmptyDict
    /\ last_chunk = NoChunk
    /\ last_entry_ts = 0
    /\ files = EmptyDict
    /\ handles = [id \in HandleIds |-> NoHandle]
    /\ iters = [it \in IterIds |-> NoIter]
    /\ obs = [it \in IterIds |-> NoObs]
    /\ appended = << >>
    /\ res = [op |-> "init", status |-> "ok"]

InitSeries == InitSeriesOf(1 .. MaxM)

\* the series in the hands of a single caller
Init == InitSeries /\ Alone

\* ------------------------------------------------------------ series helpers
\* TimeSeries.get_references_for
get_references_for(refs, name) == IF name \in DOMAIN refs THEN refs[name] ELSE 0

\* TimeSeries.decref_chunk raises KeyError on a missing key; the function is
\* cdef void, so the exception is reported and dropped unless cy3
DecrefRaises(refs, name) == cy3 /\ name \notin DOMAIN refs

\* TimeSeries.decref_chunk
decref_chunk(refs, name) ==
    IF name \in DOMAIN refs THEN [refs EXCEPT ![name] = refs[name] - 1] ELSE refs

\* TimeSeries.incref_chunk
incref_chunk(refs, name) ==
    IF name \notin DOMAIN refs THEN DictSet(refs, name, 1)
    ELSE [refs EXCEPT ![name] = refs[name] + 1]

\* os.path.exists(os.path.join(self.path, str(name))): chunk files of a gzip
\* series carry the extension .gz, so the bare name never exists there
PathExists(name) == gzip_level = 0 /\ name \in DOMAIN files

\* the Chunk objects something still refers to
UsedHandles(oc, lc, its) ==
    Range(oc) \cup {lc}
      \cup UNION {IF its[it].st = "none" THEN {}
                  ELSE Range(its[it].chunks) \cup {its[it].current_chunk} : it \in IterIds}

\* unreferenced Chunk objects leave the heap
Collect(hs, oc, lc, its) ==
    [id \in HandleIds |-> IF id \in UsedHandles(oc, lc, its) THEN hs[id] ELSE NoHandle]

FreeIds == {id \in HandleIds : handles[id] = NoHandle}
NewId == CHOOSE id \in FreeIds : \A other \in FreeIds : id <= other

\* the values of data offered to append: every payload of block_size bytes,
\* one that is too short and one that is too long
DataOfLen(n) == {Fill(b, n) : b \in ByteVals}
Payloads == UNION {DataOfLen(n) : n \in BlockSizes}
Datas == Payloads \cup {<< >>} \cup {Fill(1, n + 1) : n \in BlockSizes}


\* the Chunk objects the Iterator objects refer to
IterHandles(its) ==
    UNION {IF its[it].st = "none" THEN {}
           ELSE Range(its[it].chunks) \cup {its[it].current_chunk} : it \in IterIds}

\* Chunk.__del__ -> Chunk.close() of an object h that became garbage while it
\* still had its parent: <<refs_chunks, open_chunks>> afterwards.  StillOpen
\* and KeyError raised in a finalizer are reported and dropped.
Finalize(refs, oc, h) ==
    IF ~h.attached \/ get_references_for(refs, h.name) > 0 \/ h.name \notin DOMAIN refs
    THEN <<refs, oc>>
    ELSE <<DictDel(refs, h.name),
           IF h.name \in DOMAIN oc THEN DictDel(oc, h.name) ELSE oc>>

\* a closed Iterator is dropped by its holder before the next call is made
NoneClosed == \A it \in IterIds : iters[it].st # "closed"

RefsBounded(refs) == \A k \in DOMAIN refs : refs[k] >= -MaxRefs /\ refs[k] <= MaxRefs

AppendRes(status) == [op |-> "append", status |-> status]

\* TimeSeries.append, the branch that creates the next chunk (lines 660-671).
\* A Chunk object that becomes garbage is finalized (Chunk.__del__) when cy3.
AppendNewChunk(timestamp, data) ==
    LET fin == cy3
        refs1 == IF last_chunk # NoChunk
                 THEN decref_chunk(refs_chunks, handles[last_chunk].name)
                 ELSE refs_chunks
        direct == gzip_level # 0
        f == NewChunkFile(timestamp, data, page_size, direct)
        id == NewId
        h == OpenHandle(f, page_size, direct)
        \* line 664: last_chunk is rebound
        g1 == /\ last_chunk # NoChunk
              /\ last_chunk \notin Range(open_chunks) \cup IterHandles(iters)
        r2 == IF g1 /\ fin THEN Finalize(refs1, open_chunks, handles[last_chunk])
              ELSE <<refs1, open_chunks>>
        \* line 669: open_chunks[timestamp] is bound
        replaced == IF timestamp \in DOMAIN r2[2] THEN r2[2][timestamp] ELSE NoChunk
        oc3 == DictSet(r2[2], timestamp, id)
        g2 == /\ replaced # NoChunk
              /\ replaced \notin Range(oc3) \cup IterHandles(iters)
        r4 == IF g2 /\ fin THEN Finalize(r2[1], oc3, handles[replaced])
              ELSE <<r2[1], oc3>>
        \* line 670
        refs5 == incref_chunk(r4[1], timestamp)
    IN  IF last_chunk # NoChunk /\ DecrefRaises(refs_chunks, handles[last_chunk].name)
        THEN /\ res' = AppendRes("KeyError")
             /\ UNCHANGED <<closed, settings, chunks, open_chunks, refs_chunks, last_chunk,
                            last_entry_ts, files, handles, iters, obs, appended>>
        ELSE IF PathExists(timestamp)
        THEN \* create_chunk raises AlreadyExists after the decref of line 663
             /\ RefsBounded(refs1)
             /\ refs_chunks' = refs1
             /\ res' = AppendRes("AlreadyExists")
             /\ UNCHANGED <<closed, settings, chunks, open_chunks, last_chunk,
                            last_entry_ts, files, handles, iters, obs, appended>>
        ELSE /\ FreeIds # {}
             /\ RefsBounded(refs5)
             /\ files' = DictSet(files, timestamp, f)
             /\ last_chunk' = id
             /\ open_chunks' = r4[2]
             /\ refs_chunks' = refs5
             /\ chunks' = Append(chunks, <<timestamp, direct, direct>>)
             /\ handles' = Collect([handles EXCEPT ![id] = h], r4[2], id, iters)
             /\ last_entry_ts' = timestamp
             /\ appended' = Append(appended, <<timestamp, data>>)
             /\ res' = AppendRes("ok")
             /\ UNCHANGED <<closed, settings, iters, obs>>

\* TimeSeries.append, the branch that delegates to last_chunk.append (line 673)
AppendToLast(timestamp, data) ==
    LET h == handles[last_chunk]
        r == ChunkAppend(files[h.name], h, timestamp, data)
    IN  /\ h.open
        /\ files' = [files EXCEPT ![h.name] = r[1]]
        /\ handles' = [handles EXCEPT ![last_chunk] = r[2]]
        /\ last_entry_ts' = IF r[3] = "ok" THEN timestamp ELSE last_entry_ts
        /\ appended' = IF r[3] = "ok" THEN Append(appended, <<timestamp, data>>)
                       ELSE appended
        /\ res' = AppendRes(r[3])
        /\ UNCHANGED <<closed, settings, chunks, open_chunks, refs_chunks, last_chunk,
                       iters, obs>>

\* TimeSeries.append, lines 658-674: what runs under the write lock
AppendLocked(timestamp, data) ==
    IF last_chunk = NoChunk \/ handles[last_chunk].entries >= max_entries_per_chunk
    THEN AppendNewChunk(timestamp, data)
    ELSE AppendToLast(timestamp, data)

\* TimeSeries.append by the only thread that uses the series.  threads is left
\* to the caller.
SeriesAppend(timestamp, data) ==
    /\ Len(appended) < MaxAppends
    /\ NoneClosed
    /\ IF closed
       THEN /\ res' = AppendRes("InvalidState")
            /\ UNCHANGED <<closed, settings, chunks, open_chunks, refs_chunks, last_chunk,
                           last_entry_ts, files, handles, iters, obs, appended>>
       ELSE IF Len(data) # block_size
       THEN /\ res' = AppendRes("ValueError")
            /\ UNCHANGED <<closed, settings, chunks, open_chunks, refs_chunks, last_chunk,
                           last_entry_ts, files, handles, iters, obs, appended>>
       ELSE IF timestamp <= last_entry_ts /\ last_entry_ts # 0
       THEN /\ res' = AppendRes("ValueError")
            /\ UNCHANGED <<closed, settings, chunks, open_chunks, refs_chunks, last_chunk,
                           last_entry_ts, files, handles, iters, obs, appended>>
       ELSE AppendLocked(timestamp, data)

DoAppend ==
    \E timestamp \in Timestamps, data \in Datas :
        SeriesAppend(timestamp, data) /\ UNCHANGED threads


\* ----------------------------------------------------------- range iteration
\* TimeSeries.get_index_of_chunk_for: the bisection over chunks
RECURSIVE BisectChunks(_, _, _, _)
BisectChunks(cs, timestamp, lo, hi) ==
    IF lo < hi
    THEN LET mid == (lo + hi) \div 2
         IN  IF cs[mid + 1][1] < timestamp
             THEN BisectChunks(cs, timestamp, mid + 1, hi)
             ELSE BisectChunks(cs, timestamp, lo, mid)
    ELSE lo

\* TimeSeries.get_index_of_chunk_for; lo is an unsigned int, so lo-1 wraps
get_index_of_chunk_for(cs, timestamp) ==
    LET lo == BisectChunks(cs, timestamp, 0, Len(cs))
    IN  IF lo >= Len(cs) THEN Len(cs) - 1          \* IndexError
        ELSE IF cs[lo + 1][1] = timestamp THEN lo
        ELSE UIntDec(lo)

\* the part of the state that opening, reading and releasing chunks works on
Cache == [oc |-> open_chunks, refs |-> refs_chunks, hs |-> handles]

FreeIn(hs) == {id \in HandleIds : hs[id] = NoHandle}
MinOf(S) == CHOOSE x \in S : \A y \in S : x <= y

\* TimeSeries.open_chunk of a chunk that is listed in chunks, on an open series.
\* Result: the cache afterwards and the chunk returned (NoChunk when the model
\* has no Chunk object left to give out).
open_chunk(C, name, is_direct, is_gzip) ==
    IF name \in DOMAIN C.oc
    THEN [cache |-> [C EXCEPT !.refs = incref_chunk(C.refs, name)],
          chunk |-> C.oc[name]]
    ELSE IF FreeIn(C.hs) = {} \/ name \notin DOMAIN files
    THEN [cache |-> C, chunk |-> NoChunk]
    ELSE LET id == MinOf(FreeIn(C.hs))
             h == OpenHandle(files[name], page_size, is_direct)
         IN  [cache |-> [oc |-> DictSet(C.oc, name, id),
                         refs |-> incref_chunk(C.refs, name),
                         hs |-> [C.hs EXCEPT ![id] = h]],
              chunk |-> id]

\* the loop of TimeSeries.iterate_range (lines 531-533) from chunk_index on
RECURSIVE OpenSpan(_, _, _, _)
OpenSpan(C, got, chunk_index, upper) ==
    IF chunk_index >= upper THEN [cache |-> C, chunks |-> got, ok |-> TRUE]
    ELSE LET c == chunks[chunk_index + 1]
             r == open_chunk(C, c[1], c[2], c[3])
         IN  IF r.chunk = NoChunk THEN [cache |-> C, chunks |-> got, ok |-> FALSE]
             ELSE OpenSpan(r.cache, Append(got, r.chunk), chunk_index + 1, upper)

\* Iterator.__init__
NewIterator(start, stop, cs) ==
    [st |-> "open", start |-> start, stop |-> stop, chunks |-> cs,
     current_chunk |-> NoChunk, i |-> 0, limit |-> 0,
     is_first |-> FALSE, is_last |-> FALSE]

\* TimeSeries.iterate_range on cache C.  status is "ok", the exception raised,
\* or "bound" when the model has no Chunk object left.
iterate_range(C, start, stop) ==
    IF last_chunk = NoChunk
    THEN [status |-> "ok", cache |-> C, iter |-> NewIterator(0, 0, << >>)]
    ELSE IF start > stop
    THEN [status |-> "ValueError", cache |-> C, iter |-> NoIter]
    ELSE LET start1 == IF start < chunks[1][1] THEN chunks[1][1] ELSE start
             stop1 == IF stop > last_entry_ts THEN last_entry_ts ELSE stop
             ch_start == get_index_of_chunk_for(chunks, start1)
             ch_stop == get_index_of_chunk_for(chunks, stop1)
             upper == UIntInc(ch_stop)
         IN  IF ch_start >= upper
             THEN [status |-> "ok", cache |-> C,
                   iter |-> NewIterator(start1, stop1, << >>)]
             ELSE IF closed
             THEN [status |-> "InvalidState", cache |-> C, iter |-> NoIter]
             ELSE LET r == OpenSpan(C, << >>, ch_start, upper)
                  IN  IF r.ok
                      THEN [status |-> "ok", cache |-> r.cache,
                            iter |-> NewIterator(start1, stop1, r.chunks)]
                      ELSE [status |-> "bound", cache |-> C, iter |-> NoIter]

\* Chunk.get_timestamp_at / find_left / find_right through Chunk object h
HandleFile(h) == IF h.name \in DOMAIN files THEN files[h.name] ELSE NoFile

\* find_left / find_right through a Chunk object whose mmap is closed: every
\* get_timestamp_at raises ValueError; without cy3 that is dropped inside
\* get_timestamp_at, which then returns 0
ClosedFile(f) == [k \in 1 .. Len(f) |-> 0]
SeenFile(h) == IF h.open THEN HandleFile(h) ELSE ClosedFile(HandleFile(h))

\* Iterator.get_next on iterator I and cache C.  outcome: "ok", "stop"
\* (StopIteration), or the exception that leaves get_next
get_next(C, I) ==
    LET raises == /\ I.current_chunk # NoChunk
                  /\ DecrefRaises(C.refs, C.hs[I.current_chunk].name)
        refs1 == IF I.current_chunk # NoChunk
                 THEN decref_chunk(C.refs, C.hs[I.current_chunk].name)
                 ELSE C.refs
        first == I.current_chunk = NoChunk
        C1 == [C EXCEPT !.refs = refs1]
    IN  IF raises THEN [cache |-> C, iter |-> I, outcome |-> "KeyError"]
        ELSE IF I.chunks = << >>
        THEN [cache |-> C1, iter |-> [I EXCEPT !.is_first = first], outcome |-> "stop"]
        ELSE LET cur == Head(I.chunks)
                 rest == Tail(I.chunks)
                 h == C.hs[cur]
                 f == SeenFile(h)
                 last == rest = << >>
                 J == [I EXCEPT !.is_first = first, !.current_chunk = cur,
                                !.chunks = rest, !.is_last = last,
                                !.i = IF first THEN I.i ELSE 0]
             IN  IF cy3 /\ ~h.open /\ h.entries > 0 /\ (first \/ last)
                 THEN [cache |-> C1, iter |-> J, outcome |-> "ValueError"]
                 ELSE [cache |-> C1,
                       iter |-> [J EXCEPT
                                   !.i = IF first THEN find_left(f, h, I.start) ELSE 0,
                                   !.limit = IF last THEN find_right(f, h, I.stop)
                                             ELSE h.entries],
                       outcome |-> "ok"]

\* a null tuple
None == << >>

\* Iterator.next_item on iterator I and cache C: the cache and the iterator
\* afterwards, the value returned and the exception raised, if any
next_item(C, I) ==
    LET g == IF I.current_chunk = NoChunk \/ I.i = I.limit
             THEN get_next(C, I)
             ELSE [cache |-> C, iter |-> I, outcome |-> "ok"]
        J == g.iter
        h == g.cache.hs[J.current_chunk]
        f == HandleFile(h)
        after == [J EXCEPT !.i = J.i + 1]
    IN  IF g.outcome = "stop"
        THEN [cache |-> g.cache, iter |-> after, ret |-> None, status |-> "ok"]
        ELSE IF g.outcome # "ok"
        THEN [cache |-> g.cache, iter |-> after, ret |-> None, status |-> g.outcome]
        ELSE IF J.i >= h.entries                       \* IndexError
        THEN [cache |-> g.cache, iter |-> after, ret |-> None, status |-> "ok"]
        ELSE IF ~h.open                                \* read of a closed mmap
        THEN [cache |-> g.cache, iter |-> after, ret |-> None, status |-> "ValueError"]
        ELSE [cache |-> g.cache, iter |-> after,
              ret |-> <<TimestampAt(f, h.block_size, J.i), ValueAt(f, h.block_size, J.i)>>,
              status |-> "ok"]

\* Chunk.decref for each chunk left in the queue (Iterator.close, lines
\* 268-269); a count below zero raises ValueError and ends the loop
RECURSIVE DecrefAll(_, _, _)
DecrefAll(refs, hs, q) ==
    IF q = << >> THEN [refs |-> refs, status |-> "ok"]
    ELSE LET h == hs[Head(q)]
             refs1 == IF h.attached THEN decref_chunk(refs, h.name) ELSE refs
         IN  IF h.attached /\ DecrefRaises(refs, h.name)
             THEN [refs |-> refs, status |-> "KeyError"]
             ELSE IF h.attached /\ get_references_for(refs1, h.name) < 0
             THEN [refs |-> refs1, status |-> "ValueError"]
             ELSE DecrefAll(refs1, hs, Tail(q))

\* Iterator.close on an iterator that is not closed yet
iter_close(C, I) ==
    LET r == DecrefAll(C.refs, C.hs, I.chunks)
    IN  [cache |-> [C EXCEPT !.refs = r.refs],
         iter |-> [I EXCEPT !.st = "closed",
                            !.chunks = IF r.status = "ok" THEN << >> ELSE I.chunks],
         status |-> r.status]


\* ------------------------------------------------------------ closing chunks
\* Chunk.close(force) of Chunk object id on cache C
chunk_close(C, id, force) ==
    LET h == C.hs[id]
        detached == [C.hs EXCEPT ![id].attached = FALSE]
        shut == [C.hs EXCEPT ![id].attached = FALSE, ![id].open = FALSE]
    IN  IF h.attached /\ ~force /\ get_references_for(C.refs, h.name) > 0
        THEN [cache |-> C, status |-> "StillOpen"]
        ELSE IF h.attached /\ h.name \notin DOMAIN C.refs
        THEN [cache |-> C, status |-> "KeyError"]
        ELSE IF h.attached /\ h.name \notin DOMAIN C.oc
        THEN [cache |-> [C EXCEPT !.refs = DictDel(C.refs, h.name)],
              status |-> "KeyError"]
        ELSE LET C1 == IF h.attached
                       THEN [C EXCEPT !.refs = DictDel(C.refs, h.name),
                                      !.oc = DictDel(C.oc, h.name)]
                       ELSE C
             IN  IF ~h.open                         \* sync() flushes a closed mmap
                 THEN [cache |-> [C1 EXCEPT !.hs = detached], status |-> "ValueError"]
                 ELSE [cache |-> [C1 EXCEPT !.hs = shut], status |-> "ok"]

\* the keys of a dict in the order of a list(...) snapshot: chunks enter
\* open_chunks in ascending order of name unless an older one is reopened
RECURSIVE KeyList(_)
KeyList(S) == IF S = {} THEN << >> ELSE <<MinOf(S)>> \o KeyList(S \ {MinOf(S)})

\* the loop of TimeSeries.close_chunks (lines 612-620) over the names left
RECURSIVE CloseUnreferenced(_, _, _)
CloseUnreferenced(C, names, last_chunk_name) ==
    IF names = << >> THEN [cache |-> C, status |-> "ok"]
    ELSE LET chunk_name == Head(names)
         IN  IF chunk_name = last_chunk_name
                  \/ get_references_for(C.refs, chunk_name) # 0
             THEN CloseUnreferenced(C, Tail(names), last_chunk_name)
             ELSE IF chunk_name \notin DOMAIN C.oc
             THEN [cache |-> C, status |-> "KeyError"]
             ELSE LET r == chunk_close(C, C.oc[chunk_name], FALSE)
                      C2 == [r.cache EXCEPT !.refs =
                                IF chunk_name \in DOMAIN r.cache.refs
                                THEN DictDel(r.cache.refs, chunk_name)
                                ELSE r.cache.refs]
                  IN  IF r.status # "ok" THEN r
                      ELSE CloseUnreferenced(C2, Tail(names), last_chunk_name)

\* TimeSeries.close_chunks
close_chunks(C) ==
    IF closed \/ last_chunk = NoChunk \/ Len(chunks) = 1
    THEN [cache |-> C, status |-> "ok"]
    ELSE CloseUnreferenced(C, KeyList(DOMAIN C.oc), C.hs[last_chunk].name)

\* os.unlink of the path TimeSeries.trim builds for a chunk that is not open:
\* the bare name, which is the file of a normal chunk only
UnlinkBareRaises(name) == gzip_level # 0 \/ name \notin DOMAIN files

\* the loop of TimeSeries.trim (lines 419-432) on cache C, chunk list cs and
\* files fs
RECURSIVE TrimLoop(_, _, _, _)
TrimLoop(C, cs, fs, timestamp) ==
    IF ~(Len(cs) >= 2 /\ timestamp > cs[2][1])
    THEN [cache |-> C, chunks |-> cs, files |-> fs, status |-> "ok"]
    ELSE LET chunk_to_delete == cs[1][1]
         IN  IF chunk_to_delete \in DOMAIN C.oc
             THEN IF get_references_for(C.refs, chunk_to_delete) # 0
                  THEN [cache |-> C, chunks |-> cs, files |-> fs, status |-> "ok"]
                  ELSE \* Chunk.delete: close() and unlink of the chunk's own path
                       LET r == chunk_close(C, C.oc[chunk_to_delete], FALSE)
                       IN  IF r.status # "ok"
                           THEN [cache |-> r.cache, chunks |-> cs, files |-> fs,
                                 status |-> r.status]
                           ELSE TrimLoop(r.cache, Tail(cs),
                                         DictDel(fs, chunk_to_delete), timestamp)
             ELSE IF UnlinkBareRaises(chunk_to_delete)
             THEN [cache |-> C, chunks |-> cs, files |-> fs, status |-> "OSError"]
             ELSE TrimLoop(C, Tail(cs), DictDel(fs, chunk_to_delete), timestamp)

\* TimeSeries.trim
trim(C, timestamp) ==
    IF Len(chunks) = 1
    THEN [cache |-> C, chunks |-> chunks, files |-> files, status |-> "ok"]
    ELSE TrimLoop(C, chunks, files, timestamp)

\* the loop of TimeSeries.close (lines 465-467)
RECURSIVE CloseAll(_, _)
CloseAll(C, ids) ==
    IF ids = << >> THEN [cache |-> C, status |-> "ok"]
    ELSE LET r == chunk_close(C, Head(ids), TRUE)
         IN  IF r.status # "ok" THEN r ELSE CloseAll(r.cache, Tail(ids))


\* -------------------------------------------------------------- the actions
\* the records a chunk file holds, by the entry count a reader derives from it
RECURSIVE RecordsUpTo(_, _, _)
RecordsUpTo(f, bs, n) ==
    IF n <= 0 THEN << >>
    ELSE Append(RecordsUpTo(f, bs, n - 1),
                <<TimestampAt(f, bs, n - 1), ValueAt(f, bs, n - 1)>>)

FileRecords(f, is_direct) ==
    LET h == OpenHandle(f, page_size, is_direct)
    IN  RecordsUpTo(f, h.block_size, h.entries)

\* the records stored in the series, chunk by chunk in the order of chunks
RECURSIVE StoredFrom(_)
StoredFrom(cs) ==
    IF cs = << >> THEN << >>
    ELSE (IF cs[1][1] \in DOMAIN files THEN FileRecords(files[cs[1][1]], cs[1][2])
          ELSE << >>) \o StoredFrom(Tail(cs))

Stored == StoredFrom(chunks)

InRange(recs, a, b) ==
    LET Test(r) == a <= r[1] /\ r[1] <= b IN SelectSeq(recs, Test)

\* [a, b] spans every timestamp appended so far
Covers(a, b) == \A k \in DOMAIN appended : a <= appended[k][1] /\ appended[k][1] <= b

FreeSlots == {it \in IterIds : iters[it].st = "none"}

\* it = series.iterate_range(a, b)
IterateRange(a, b) ==
    LET r == iterate_range(Cache, a, b)
        slot == MinOf(FreeSlots)
        its == IF r.status = "ok" THEN [iters EXCEPT ![slot] = r.iter] ELSE iters
    IN  /\ FreeSlots # {}
        /\ NoneClosed
        /\ r.status # "bound"
        /\ RefsBounded(r.cache.refs)
        /\ open_chunks' = r.cache.oc
        /\ refs_chunks' = r.cache.refs
        /\ iters' = its
        /\ handles' = Collect(r.cache.hs, r.cache.oc, last_chunk, its)
        /\ obs' = IF r.status = "ok"
                  THEN [obs EXCEPT ![slot] = [out |-> << >>, done |-> FALSE,
                                              refs0 |-> refs_chunks,
                                              expect |-> InRange(Stored, a, b),
                                              range |-> <<a, b>>,
                                              whole |-> Covers(a, b)]]
                  ELSE obs
        /\ res' = [op |-> "iterate_range", status |-> r.status]
        /\ UNCHANGED <<closed, params, chunks, last_chunk, last_entry_ts, files,
                       appended>>

DoIterateRange == \E a \in Timestamps, b \in Timestamps : IterateRange(a, b)

\* it.next_item()
NextItem(it) ==
    LET r == next_item(Cache, iters[it])
    IN  /\ iters[it].st = "open"
        /\ NoneClosed
        /\ ~obs[it].done \/ iters[it].i <= iters[it].limit + 1
        /\ RefsBounded(r.cache.refs)
        /\ refs_chunks' = r.cache.refs
        /\ iters' = [iters EXCEPT ![it] = r.iter]
        /\ obs' = [obs EXCEPT ![it].out = IF r.status = "ok" /\ r.ret # None
                                          THEN Append(@, r.ret) ELSE @,
                              ![it].done = @ \/ (r.status = "ok" /\ r.ret = None)]
        /\ res' = [op |-> "next_item", status |-> r.status]
        /\ UNCHANGED <<closed, params, chunks, open_chunks, last_chunk, last_entry_ts,
                       files, handles, appended>>

DoNextItem == \E it \in IterIds : NextItem(it)

\* it.close() on an iterator that is not closed
IterClose(it) ==
    LET r == iter_close(Cache, iters[it])
        its == [iters EXCEPT ![it] = r.iter]
    IN  /\ iters[it].st = "open"
        /\ NoneClosed
        /\ RefsBounded(r.cache.refs)
        /\ refs_chunks' = r.cache.refs
        /\ iters' = its
        /\ handles' = Collect(handles, open_chunks, last_chunk, its)
        /\ res' = [op |-> "iter_close", status |-> r.status]
        /\ UNCHANGED <<closed, params, chunks, open_chunks, last_chunk, last_entry_ts,
                       files, obs, appended>>

DoIterClose == \E it \in IterIds : IterClose(it)

\* series.close_chunks()
DoCloseChunks ==
    LET r == close_chunks(Cache)
    IN  /\ NoneClosed
        /\ open_chunks' = r.cache.oc
        /\ refs_chunks' = r.cache.refs
        /\ handles' = Collect(r.cache.hs, r.cache.oc, last_chunk, iters)
        /\ res' = [op |-> "close_chunks", status |-> r.status]
        /\ UNCHANGED <<closed, params, chunks, last_chunk, last_entry_ts, files,
                       iters, obs, appended>>

\* series.trim(timestamp)
Trim(timestamp) ==
    LET r == trim(Cache, timestamp)
    IN  /\ NoneClosed
        /\ open_chunks' = r.cache.oc
        /\ refs_chunks' = r.cache.refs
        /\ chunks' = r.chunks
        /\ files' = r.files
        /\ handles' = Collect(r.cache.hs, r.cache.oc, last_chunk, iters)
        /\ res' = [op |-> "trim", status |-> r.status]
        /\ UNCHANGED <<closed, params, last_chunk, last_entry_ts, iters, obs, appended>>

DoTrim == \E timestamp \in Timestamps : Trim(timestamp)

\* TimeSeries.get_current_value, lines 239-243: r1, r2 and r3 are the outcomes
\* of iterate_range, next_item and close
current_value_result(r1, r2, r3) ==
    IF r1.status # "ok" THEN [cache |-> r1.cache, status |-> r1.status, ret |-> None]
    ELSE IF r2.status # "ok"
    THEN [cache |-> r3.cache, status |-> r2.status, ret |-> None]
    ELSE IF r3.status # "ok"
    THEN [cache |-> r3.cache, status |-> r3.status, ret |-> None]
    ELSE IF r2.ret = None
    THEN [cache |-> r3.cache, status |-> "ValueError", ret |-> None]
    ELSE [cache |-> r3.cache, status |-> "ok", ret |-> r2.ret]

\* line 238, it.close(): `it` dies unclosed when next_item raised, and
\* Iterator.__del__ closes it
current_value_close(r1, r2) ==
    current_value_result(r1, r2,
        IF r2.status = "ok" \/ cy3 THEN iter_close(r2.cache, r2.iter)
        ELSE [cache |-> r2.cache, status |-> "ok"])

\* line 237, it.next_item()
current_value_next(r1) == current_value_close(r1, next_item(r1.cache, r1.iter))

\* TimeSeries.get_current_value
get_current_value(C) ==
    IF last_chunk = NoChunk THEN [cache |-> C, status |-> "ValueError", ret |-> None]
    ELSE current_value_next(iterate_range(C, C.hs[last_chunk].max_ts,
                                          C.hs[last_chunk].max_ts))

\* series.get_current_value()
DoGetCurrentValue ==
    \E r \in {get_current_value(Cache)} :
        /\ NoneClosed
        /\ r.status # "bound"
        /\ RefsBounded(r.cache.refs)
        /\ open_chunks' = r.cache.oc
        /\ refs_chunks' = r.cache.refs
        /\ handles' = Collect(r.cache.hs, r.cache.oc, last_chunk, iters)
        /\ res' = [op |-> "get_current_value", status |-> r.status, ret |-> r.ret]
        /\ UNCHANGED <<closed, params, chunks, last_chunk, last_entry_ts, files,
                       iters, obs, appended>>

\* TimeSeries.close
IdsOf(oc) == LET ks == KeyList(DOMAIN oc) IN [k \in 1 .. Len(ks) |-> oc[ks[k]]]

DoClose ==
    LET r == CloseAll(Cache, IdsOf(open_chunks))
    IN  /\ NoneClosed
        /\ IF closed
           THEN /\ res' = [op |-> "close", status |-> "ok"]
                /\ UNCHANGED <<closed, params, chunks, open_chunks, refs_chunks,
                               last_chunk, last_entry_ts, files, handles, iters, obs,
                               appended>>
           ELSE /\ closed' = (r.status = "ok")
                /\ open_chunks' = r.cache.oc
                /\ refs_chunks' = r.cache.refs
                /\ handles' = Collect(r.cache.hs, r.cache.oc, last_chunk, iters)
                /\ res' = [op |-> "close", status |-> r.status]
                /\ UNCHANGED <<params, chunks, last_chunk, last_entry_ts, files, iters,
                               obs, appended>>

\* the holder of a closed Iterator drops it
Release(it) ==
    /\ iters[it].st = "closed"
    /\ iters' = [iters EXCEPT ![it] = NoIter]
    /\ obs' = [obs EXCEPT ![it] = NoObs]
    /\ handles' = Collect(handles, open_chunks, last_chunk, iters')
    /\ res' = [op |-> "release", status |-> "ok"]
    /\ UNCHANGED <<closed, params, chunks, open_chunks, refs_chunks, last_chunk,
                   last_entry_ts, files, appended>>

DoRelease == \E it \in IterIds : Release(it)

Next ==
    \/ DoAppend
    \/ DoIterateRange
    \/ DoNextItem
    \/ DoIterClose
    \/ DoRelease
    \/ DoCloseChunks
    \/ DoTrim
    \/ DoGetCurrentValue
    \/ DoClose

Spec == Init /\ [][Next]_vars

\* a caller that only appends
NextAppend == DoAppend

SpecAppend == Init /\ [][NextAppend]_vars

\* a caller that appends, then reads: no append while an Iterator is held
NextRead ==
    \/ (FreeSlots = IterIds /\ DoAppend)
    \/ DoIterateRange
    \/ DoNextItem
    \/ DoIterClose
    \/ DoRelease

SpecRead == Init /\ [][NextRead]_vars

\* the reading caller, which also evicts: close_chunks and trim at any time.
\* Eviction never looks at a payload, so this caller appends one payload only.
NextEvict ==
    \/ (/\ FreeSlots = IterIds
        /\ \E timestamp \in Timestamps : SeriesAppend(timestamp, Fill(1, block_size))
        /\ UNCHANGED threads)
    \/ DoIterateRange
    \/ DoNextItem
    \/ DoIterClose
    \/ DoRelease
    \/ DoCloseChunks
    \/ DoTrim

SpecEvict == Init /\ [][NextEvict]_vars

\* ------------------------------------------------------- a chunk on its own
\* block_size and page_size of a chunk file made by create_chunk and opened
\* without a series: records that fit a page, records that outgrow the page
\* added by one extend()
ChunkBlockSizes == {1, 9, 17}
ChunkPageSizes == {8, 16}

\* the one Chunk object of this specification
TheChunk == handles[MinOf(HandleIds)]
TheFile == files[TheChunk.name]

\* create_chunk(None, path, timestamp, data, page_size), in the normal layout
\* with either access mode, or in the direct layout
InitChunkFile ==
    /\ closed = FALSE
    /\ gzip_level = 0
    /\ cy3 \in BOOLEAN
    /\ max_entries_per_chunk = 1
    /\ block_size \in ChunkBlockSizes
    /\ page_size \in ChunkPageSizes
    /\ chunks = << >>
    /\ open_chunks = EmptyDict
    /\ refs_chunks = EmptyDict
    /\ last_chunk = NoChunk
    /\ last_entry_ts = 0
    /\ iters = [it \in IterIds |-> NoIter]
    /\ obs = [it \in IterIds |-> NoObs]
    /\ res = [op |-> "create_chunk", status |-> "ok"]
    /\ \E timestamp \in Timestamps, b \in ByteVals, direct \in BOOLEAN,
          descriptor \in BOOLEAN :
          LET data == Fill(b, block_size)
              f == NewChunkFile(timestamp, data, page_size, direct)
              h == OpenHandle(f, page_size, direct)
          IN  /\ direct => descriptor
              /\ files = DictSet(EmptyDict, timestamp, f)
              /\ handles = [id \in HandleIds |->
                              IF id = MinOf(HandleIds)
                              THEN [h EXCEPT !.attached = FALSE,
                                             !.descriptor = descriptor]
                              ELSE NoHandle]
              /\ appended = <<(<<timestamp, data>>)>>

\* the chunk in the hands of a single caller
InitChunk == InitChunkFile /\ Alone

\* chunk.append(timestamp, data) with data of block_size bytes
ChunkDoAppend ==
    \E timestamp \in Timestamps, b \in ByteVals :
        LET data == Fill(b, block_size)
            r == ChunkAppend(TheFile, TheChunk, timestamp, data)
        IN  /\ Len(appended) <= MaxChunkAppends
            /\ res.status = "ok"
            /\ files' = [files EXCEPT ![TheChunk.name] = r[1]]
            /\ handles' = [handles EXCEPT ![MinOf(HandleIds)] = r[2]]
            /\ appended' = IF r[3] = "ok" THEN Append(appended, <<timestamp, data>>)
                           ELSE appended
            /\ res' = [op |-> "chunk_append", status |-> r[3]]
            /\ UNCHANGED <<closed, params, chunks, open_chunks, refs_chunks, last_chunk,
                           last_entry_ts, iters, obs>>

NextChunk == ChunkDoAppend

SpecChunk == InitChunk /\ [][NextChunk]_vars

\* ------------------------------------------------------------------- claims
StrictlyIncreasing(recs) == \A k \in 1 .. Len(recs) - 1 : recs[k][1] < recs[k + 1][1]

IsPrefix(p, q) == Len(p) <= Len(q) /\ p = SubSeq(q, 1, Len(p))

\* the Iterator objects somebody holds
Held == {it \in IterIds : iters[it].st # "none"}

C2_Complete ==
    \A it \in Held :
        (obs[it].done /\ StrictlyIncreasing(appended))
            => obs[it].out = obs[it].expect

\* the largest timestamp of chunk c = <<name, is_direct, is_gzip>> as its Chunk
\* object holds it, or as a Chunk object opened on its file would
ChunkOf(c) ==
    IF c[1] \in DOMAIN open_chunks THEN handles[open_chunks[c[1]]]
    ELSE IF last_chunk # NoChunk /\ handles[last_chunk].name = c[1] THEN handles[last_chunk]
    ELSE OpenHandle(files[c[1]], page_size, c[2])

\* C3: the timestamps stored in the series, read chunk by chunk in chunk
\* order, are strictly increasing, and for adjacent chunks A, B:
\* A.max_ts < B.min_ts.
C3_StoredIncreasing ==
    /\ StrictlyIncreasing(Stored)
    /\ \A k \in 1 .. Len(chunks) - 1 :
          ChunkOf(chunks[k]).max_ts < ChunkOf(chunks[k + 1]).min_ts

\* the outcome C4 gives append(timestamp, data) in the current state
C4_Outcome(timestamp, data) ==
    IF closed THEN "InvalidState"
    ELSE IF Len(data) # block_size \/ (last_entry_ts > 0 /\ timestamp <= last_entry_ts)
    THEN "ValueError"
    ELSE "ok"

\* C4: append fails with InvalidState on a closed series, with ValueError when
\* len(data) != block_size or when last_entry_ts > 0 and timestamp <=
\* last_entry_ts; in every other case it succeeds, stores the record and sets
\* last_entry_ts to timestamp.
C4_AppendContract ==
    [][\A timestamp \in Timestamps, data \in Datas :
          SeriesAppend(timestamp, data)
              => /\ res'.status = C4_Outcome(timestamp, data)
                 /\ res'.status = "ok"
                      => /\ last_entry_ts' = timestamp
                         /\ Stored' = Append(Stored, <<timestamp, data>>)]_vars

\* the number of records in the file of chunk c
EntriesOf(c) == Len(FileRecords(files[c[1]], c[2]))

\* C5: after successful appends with max_entries_per_chunk = M every chunk but
\* the newest holds exactly M records, the newest between 1 and M, every chunk
\* is named by the timestamp of its first record, and the records of all
\* chunks are read back by an iterate_range over the whole range.
C5_Rollover ==
    /\ \A k \in 1 .. Len(chunks) - 1 : EntriesOf(chunks[k]) = max_entries_per_chunk
    /\ chunks # << >> =>
          /\ EntriesOf(chunks[Len(chunks)]) >= 1
          /\ EntriesOf(chunks[Len(chunks)]) <= max_entries_per_chunk
    /\ \A k \in 1 .. Len(chunks) :
          TimestampAt(files[chunks[k][1]], block_size, 0) = chunks[k][1]
    /\ \A it \in Held : (obs[it].whole /\ obs[it].done) => obs[it].out = appended

\* the Chunk objects an open Iterator still has to read from
Referenced ==
    UNION {IF iters[it].st # "open" THEN {}
           ELSE Range(iters[it].chunks)
                  \cup (IF iters[it].current_chunk # NoChunk /\ ~obs[it].done
                        THEN {iters[it].current_chunk} ELSE {}) : it \in IterIds}

\* C6: close_chunks and trim close or delete a chunk only if its reference
\* count is zero and it is not last_chunk, and they never remove from
\* open_chunks a chunk that an unclosed iterator references.
C6_EvictUnreferenced ==
    [][(DoCloseChunks \/ DoTrim)
          => /\ \A name \in (DOMAIN open_chunks \ DOMAIN open_chunks')
                              \cup (DOMAIN files \ DOMAIN files') :
                   /\ get_references_for(refs_chunks, name) = 0
                   /\ last_chunk # NoChunk => name # handles[last_chunk].name
             /\ \A name \in DOMAIN open_chunks \ DOMAIN open_chunks' :
                   open_chunks[name] \notin Referenced]_vars

\* C7: after close() of an iterator (whatever was consumed before) the
\* reference count of every chunk equals its value before iterate_range was
\* called.
C7_CloseRestores ==
    \A it \in IterIds :
        (/\ iters[it].st = "closed"
         /\ StrictlyIncreasing(appended)
         /\ \A name \in DOMAIN obs[it].refs0 : obs[it].refs0[name] >= 0)
            => \A name \in Timestamps :
                  get_references_for(refs_chunks, name)
                      = get_references_for(obs[it].refs0, name)

\* C8: on an open series every value in refs is >= 0 and every key of
\* open_chunks is a key of refs.
C8_RefsSane ==
    ~closed => /\ \A name \in DOMAIN refs_chunks : refs_chunks[name] >= 0
               /\ DOMAIN open_chunks \subseteq DOMAIN refs_chunks

MaxOf(S) == CHOOSE x \in S : \A y \in S : y <= x

\* C9: on an open series, of either layout, last_entry_ts is the largest
\* max_ts over its chunks, or 0 when it has no chunk.
C9_LastEntryTs ==
    ~closed => last_entry_ts = IF chunks = << >> THEN 0
                               ELSE MaxOf({ChunkOf(chunks[k]).max_ts : k \in DOMAIN chunks})

\* C10: for every open chunk, normal or direct, min_ts = timestamp_at(0) and
\* max_ts = timestamp_at(entries - 1).
C10_MinMaxTs ==
    \A id \in HandleIds :
        (handles[id] # NoHandle /\ handles[id].open)
            => LET h == handles[id]
                   f == HandleFile(h)
               IN  /\ h.min_ts = TimestampAt(f, h.block_size, 0)
                   /\ h.max_ts = TimestampAt(f, h.block_size, h.entries - 1)

\* C11: for every normal chunk, after its creation and after every append
\* (also one that extends the file), file_size is a positive multiple of
\* page_size and the last 4 bytes of the file hold the entries count.
C11_NormalLayout ==
    \A id \in HandleIds :
        (handles[id] # NoHandle /\ handles[id].open /\ ~handles[id].is_direct)
            => LET h == handles[id]
                   f == HandleFile(h)
               IN  /\ h.file_size > 0
                   /\ h.file_size % h.page_size = 0
                   /\ Len(f) = h.file_size
                   /\ UnpackLE(Slice(f, Len(f) - FOOTER_SIZE, Len(f)), 4) = h.entries

\* ------------------------------------------------- variable length series
\* A VarlenSeries keeps one fixed-length series per segment: series[0] is root
\* (block_size = size_field + length_profile[0]), series[k] holds segment k.
\* The fixed-length series under a VarlenSeries are kept as their chunks, each
\* chunk the list of its records <<timestamp, data>>, in the normal layout.
MaxVarlenAppends == 2   \* accepted appends to the VarlenSeries per behaviour
MaxVarlenLen == 5       \* longest value offered to VarlenSeries.append
MaxVIters == 1          \* VarlenIterator objects alive at a time

SizeFields == {1, 3}                    \* size_struct given to create_varlen_series
LengthProfiles == {<<2>>, <<1, 2>>}     \* length_profile given to it
VIterIds == 1 .. MaxVIters
Nil == -1                               \* None in a list of ints

\* the values offered to append: one per length, with zero bytes inside and at
\* the end
VData(L) == [j \in 1 .. L |-> j % 3]
VarlenDatas == {VData(L) : L \in 1 .. MaxVarlenLen}

\* create_series: a fixed-length series without chunks
NewSub(bs) == [block_size |-> bs, chunks |-> << >>, last_entry_ts |-> 0, closed |-> FALSE]

\* TimeSeries.append on a series kept as records
SubAppend(S, timestamp, data) ==
    IF S.closed THEN [series |-> S, status |-> "InvalidState"]
    ELSE IF Len(data) # S.block_size THEN [series |-> S, status |-> "ValueError"]
    ELSE IF timestamp <= S.last_entry_ts /\ S.last_entry_ts # 0
    THEN [series |-> S, status |-> "ValueError"]
    ELSE IF S.chunks = << >> \/ Len(S.chunks[Len(S.chunks)]) >= max_entries_per_chunk
    THEN IF \E k \in 1 .. Len(S.chunks) : S.chunks[k][1][1] = timestamp
         THEN [series |-> S, status |-> "AlreadyExists"]
         ELSE [series |-> [S EXCEPT !.chunks = Append(@, <<(<<timestamp, data>>)>>),
                                    !.last_entry_ts = timestamp],
               status |-> "ok"]
    ELSE [series |-> [S EXCEPT !.chunks[Len(S.chunks)] = Append(@, <<timestamp, data>>),
                               !.last_entry_ts = timestamp],
          status |-> "ok"]

\* TimeSeries.append_padded
append_padded(S, timestamp, data) ==
    IF Len(data) > S.block_size THEN [series |-> S, status |-> "ValueError"]
    ELSE SubAppend(S, timestamp, data \o Zeros(S.block_size - Len(data)))

\* get_length_for that falls back to the first element of the profile
get_length_for_first(V, index) ==
    V.length_profile[IF index >= Len(V.length_profile) THEN 1 ELSE index + 1]

\* VarlenSeries.get_length_for
get_length_for(V, index) ==
    V.length_profile[IF index >= Len(V.length_profile) THEN Len(V.length_profile)
                     ELSE index + 1]

\* VarlenSeries.get_maximum_length
get_maximum_length(V) ==
    IF V.size_field = 1 THEN 255
    ELSE IF V.size_field = 2 THEN 65535
    ELSE IF V.size_field = 3 THEN 16777215
    ELSE 2147483647

\* size_struct.pack / size_struct.unpack; size_field 3 is ThreeByteStruct
size_pack(V, n) ==
    IF V.size_field = 3 THEN Slice(PackLE(n, 4), 0, 3) ELSE PackLE(n, V.size_field)
RECURSIVE LEValue(_)
LEValue(b) == IF b = << >> THEN 0 ELSE b[1] + 256 * LEValue(Tail(b))
size_unpack(V, b) ==
    LET raw == IF V.size_field = 3 THEN b \o <<0>> ELSE b
        width == IF V.size_field = 3 THEN 4 ELSE V.size_field
    IN  IF Len(raw) # width THEN -1 ELSE LEValue(raw)

\* create_varlen_series followed by VarlenSeries.__init__
NewVarlen(size_struct, length_profile) ==
    [st |-> "open", closed |-> FALSE, size_field |-> size_struct,
     length_profile |-> length_profile, references |-> 0,
     series |-> <<NewSub(size_struct + length_profile[1])>>,
     current_maximum_length |-> length_profile[1]]

\* VarlenSeries.add_series
add_series(V) ==
    LET new_len == get_length_for(V, Len(V.series))
    IN  [V EXCEPT !.series = Append(@, NewSub(new_len)),
                  !.current_maximum_length = @ + new_len]

\* the loop of lines 603-604
RECURSIVE AddWhileShort(_, _)
AddWhileShort(V, data_len) ==
    IF V.current_maximum_length < data_len THEN AddWhileShort(add_series(V), data_len)
    ELSE V

\* the loop of lines 613-618
RECURSIVE PutSegments(_, _, _, _, _)
PutSegments(V, timestamp, data, pointer, segment) ==
    IF pointer < Len(data) /\ segment < Len(V.series)
    THEN LET cur_len == get_length_for(V, segment)
             r == append_padded(V.series[segment + 1], timestamp,
                                Slice(data, pointer, pointer + cur_len))
         IN  IF r.status # "ok" THEN [v |-> V, status |-> r.status]
             ELSE PutSegments([V EXCEPT !.series[segment + 1] = r.series],
                              timestamp, data, pointer + cur_len, segment + 1)
    ELSE [v |-> V, status |-> "ok"]

\* VarlenSeries.append
varlen_append(V, timestamp, data) ==
    LET data_len == Len(data)
    IN  IF data_len > get_maximum_length(V) THEN [v |-> V, status |-> "ValueError"]
        ELSE IF data_len < get_length_for(V, 0)
        THEN LET r == append_padded(V.series[1], timestamp, size_pack(V, data_len) \o data)
             IN  [v |-> [V EXCEPT !.series[1] = r.series], status |-> r.status]
        ELSE LET V1 == AddWhileShort(V, data_len)
                 data_to_put == size_pack(V, data_len) \o Slice(data, 0, get_length_for(V, 0))
                 r == SubAppend(V1.series[1], timestamp, data_to_put)
             IN  IF r.status # "ok" THEN [v |-> V1, status |-> r.status]
                 ELSE PutSegments([V1 EXCEPT !.series[1] = r.series], timestamp, data,
                                  get_length_for(V, 0), 1)

\* Chunk.find_left / find_right on a chunk kept as records
RECURSIVE RecBisectLeft(_, _, _, _)
RecBisectLeft(recs, timestamp, lo, hi) ==
    IF lo < hi
    THEN LET mid == (lo + hi) \div 2
         IN  IF recs[mid + 1][1] < timestamp
             THEN RecBisectLeft(recs, timestamp, mid + 1, hi)
             ELSE RecBisectLeft(recs, timestamp, lo, mid)
    ELSE lo

RECURSIVE RecBisectRight(_, _, _, _)
RecBisectRight(recs, timestamp, lo, hi) ==
    IF lo < hi
    THEN LET mid == (lo + hi) \div 2
         IN  IF timestamp < recs[mid + 1][1]
             THEN RecBisectRight(recs, timestamp, lo, mid)
             ELSE RecBisectRight(recs, timestamp, mid + 1, hi)
    ELSE lo

\* Iterator.__init__ over chunks cs (indexes into the chunks of the series)
NewSubIter(start, stop, cs) ==
    [st |-> "open", start |-> start, stop |-> stop, chunks |-> cs, cur |-> 0,
     i |-> 0, limit |-> 0]

\* TimeSeries.iterate_range on a series kept as records
SubIterateRange(S, start, stop) ==
    IF S.chunks = << >> THEN [status |-> "ok", iter |-> NewSubIter(0, 0, << >>)]
    ELSE IF start > stop THEN [status |-> "ValueError", iter |-> NoIter]
    ELSE LET cs == [k \in 1 .. Len(S.chunks) |-> <<S.chunks[k][1][1]>>]
             start1 == IF start < cs[1][1] THEN cs[1][1] ELSE start
             stop1 == IF stop > S.last_entry_ts THEN S.last_entry_ts ELSE stop
             ch_start == get_index_of_chunk_for(cs, start1)
             ch_stop == get_index_of_chunk_for(cs, stop1)
             upper == UIntInc(ch_stop)
         IN  IF ch_start >= upper
             THEN [status |-> "ok", iter |-> NewSubIter(start1, stop1, << >>)]
             ELSE IF S.closed THEN [status |-> "InvalidState", iter |-> NoIter]
             ELSE [status |-> "ok",
                   iter |-> NewSubIter(start1, stop1,
                                       [k \in 1 .. upper - ch_start |-> ch_start + k])]

\* Iterator.next_item_pos, with Iterator.get_next inlined.  g is the value a
\* read past the last record of the chunk gives (get_timestamp_at does not check
\* its index).  ret is None or <<timestamp, position, chunk>>.
sub_next_item_pos(S, I, g) ==
    LET fetch == I.cur = 0 \/ I.i = I.limit
        stopped == fetch /\ I.chunks = << >>
        first == I.cur = 0
        cur == IF fetch /\ ~stopped THEN Head(I.chunks) ELSE I.cur
        rest == IF fetch /\ ~stopped THEN Tail(I.chunks) ELSE I.chunks
        recs == S.chunks[cur]
        J == IF fetch /\ ~stopped
             THEN [I EXCEPT !.cur = cur, !.chunks = rest,
                            !.i = IF first THEN RecBisectLeft(recs, I.start, 0, Len(recs))
                                  ELSE 0,
                            !.limit = IF rest = << >>
                                      THEN RecBisectRight(recs, I.stop, 0, Len(recs))
                                      ELSE Len(recs)]
             ELSE I
    IN  IF stopped THEN [iter |-> [I EXCEPT !.i = I.i + 1], ret |-> None]
        ELSE [iter |-> [J EXCEPT !.i = J.i + 1],
              ret |-> <<IF J.i < Len(recs) THEN recs[J.i + 1][1] ELSE g, J.i, cur>>]

\* VarlenIterator.advance_series
advance_series(V, VI, index, force, g) ==
    IF VI.iterators[index + 1] = NoIter /\ ~force THEN VI
    ELSE LET r == sub_next_item_pos(V.series[index + 1], VI.iterators[index + 1], g)
         IN  IF r.ret = None
             THEN [VI EXCEPT !.timestamps[index + 1] = Nil,
                             !.positions[index + 1] = Nil,
                             !.chunks[index + 1] = Nil,
                             !.iterators[index + 1] = NoIter]
             ELSE [VI EXCEPT !.timestamps[index + 1] = r.ret[1],
                             !.positions[index + 1] = r.ret[2],
                             !.chunks[index + 1] = r.ret[3],
                             !.iterators[index + 1] = r.iter]

\* the loop of VarlenIterator.__init__, lines 328-330
RECURSIVE OpenSubIters(_, _, _, _)
OpenSubIters(V, start, stop, got) ==
    IF Len(got) >= Len(V.series) THEN [status |-> "ok", iterators |-> got]
    ELSE LET r == SubIterateRange(V.series[Len(got) + 1], start, stop)
         IN  IF r.status # "ok" THEN [status |-> r.status, iterators |-> got]
             ELSE OpenSubIters(V, start, stop, Append(got, r.iter))

\* the loop of VarlenIterator.__init__, lines 331-333
RECURSIVE AdvanceAll(_, _, _, _)
AdvanceAll(V, VI, index, g) ==
    IF index >= Len(VI.iterators) THEN VI
    ELSE AdvanceAll(V, advance_series(V, VI, index, TRUE, g), index + 1, g)

\* VarlenIterator.__init__ after line 310: the object, and the exception
\* that leaves the constructor, if any
NewVarlenIterator(V, start, stop, g) ==
    LET n == Len(V.series)
        r == OpenSubIters(V, start, stop, << >>)
        blank == [st |-> "open", closed |-> FALSE,
                  positions |-> [k \in 1 .. n |-> Nil],
                  chunks |-> [k \in 1 .. n |-> Nil],
                  timestamps |-> [k \in 1 .. n |-> Nil],
                  iterators |-> r.iterators]
    IN  IF r.status # "ok" THEN [status |-> r.status, viter |-> blank]
        ELSE [status |-> "ok", viter |-> AdvanceAll(V, blank, 0, g)]

\* the loop of VarlenIterator.get_next, lines 372-378
RECURSIVE GetNextLoop(_, _, _, _, _, _, _)
GetNextLoop(V, VI, ts, i, cs, ps, g) ==
    IF i >= Len(VI.chunks) \/ VI.timestamps[i + 1] = Nil
    THEN [viter |-> VI, chunks |-> cs, item_no |-> ps]
    ELSE IF VI.timestamps[i + 1] = ts
    THEN GetNextLoop(V, advance_series(V, VI, i, FALSE, g), ts, i + 1,
                     Append(cs, <<i, VI.chunks[i + 1]>>),
                     Append(ps, VI.positions[i + 1]), g)
    ELSE GetNextLoop(V, VI, ts, i + 1, cs, ps, g)

\* VarlenIterator.get_next: entry is None or the VarlenEntry, whose chunks are
\* <<series index, chunk index>>
varlen_get_next(V, VI, g) ==
    IF VI.timestamps[1] = Nil THEN [viter |-> VI, entry |-> None]
    ELSE LET r == GetNextLoop(V, VI, VI.timestamps[1], 0, << >>, << >>, g)
         IN  [viter |-> r.viter, entry |-> [chunks |-> r.chunks, item_no |-> r.item_no]]

\* Chunk.get_value_at through a VarlenEntry: None stands for IndexError
EntryValue(V, E, segment) ==
    LET c == E.chunks[segment + 1]
        recs == V.series[c[1] + 1].chunks[c[2]]
        index == E.item_no[segment + 1]
    IN  IF index >= Len(recs) THEN None ELSE recs[index + 1][2]

\* b[a:c] = x on a bytearray
Splice(b, a, c, x) == Slice(b, 0, a) \o x \o Slice(b, c, Len(b))

\* the loop of VarlenEntry.to_bytes, lines 226-236
RECURSIVE ToBytesLoop(_, _, _, _, _, _, _)
ToBytesLoop(V, E, length, b, pointer, segment, offset) ==
    IF pointer < length /\ segment < Len(E.chunks)
    THEN LET cur_data == EntryValue(V, E, segment)
             cur_data_len == get_length_for(V, segment)
         IN  IF cur_data = None THEN [status |-> "IndexError", data |-> << >>]
             ELSE IF cur_data_len > length - pointer
             THEN [status |-> "ok",
                   data |-> Splice(b, pointer, length,
                                   Slice(cur_data, offset, length - pointer + offset))]
             ELSE ToBytesLoop(V, E, length,
                              Splice(b, pointer, pointer + cur_data_len,
                                     Slice(cur_data, offset, cur_data_len + offset)),
                              pointer + cur_data_len, segment + 1, 0)
    ELSE [status |-> "ok", data |-> b]

\* to_bytes that copies the first segment from its first byte, the size field
\* included
to_bytes_with_size(V, E) ==
    LET head == EntryValue(V, E, 0)
        length == size_unpack(V, Slice(head, 0, V.size_field))
    IN  IF head = None THEN [status |-> "IndexError", data |-> << >>]
        ELSE ToBytesLoop(V, E, length, Zeros(length), 0, 0, 0)

\* VarlenEntry.length, then VarlenEntry.to_bytes
to_bytes(V, E) ==
    LET head == EntryValue(V, E, 0)
        length == size_unpack(V, Slice(head, 0, V.size_field))
    IN  IF head = None THEN [status |-> "IndexError", data |-> << >>]
        ELSE ToBytesLoop(V, E, length, Zeros(length), 0, 0, V.size_field)

\* VarlenEntry.timestamp
entry_timestamp(V, E, g) ==
    LET c == E.chunks[1]
        recs == V.series[c[1] + 1].chunks[c[2]]
    IN  IF E.item_no[1] < Len(recs) THEN recs[E.item_no[1] + 1][1] ELSE g

\* what get_timestamp_at can unpack past the last record of a chunk: the zeroed
\* rest of the page, or bytes that run into the footer
Stray == {0, BigTs}

\* a VarlenIterator slot nobody holds; a held one carries the object and, as
\* history, the call that made it and what it returned so far
NoVIter == [st |-> "none"]
VFree == {it \in VIterIds : viters[it] = NoVIter}
Unclosed == {it \in VIterIds : viters[it] # NoVIter /\ ~viters[it].obj.closed}

\* create_varlen_series on a fresh directory; the series under it use the
\* normal layout
InitVarlenDir(size_structs) ==
    /\ closed = FALSE
    /\ gzip_level = 0
    /\ cy3 \in BOOLEAN
    /\ max_entries_per_chunk \in 1 .. MaxM
    /\ block_size \in BlockSizes
    /\ page_size \in PageSizes
    /\ chunks = << >>
    /\ open_chunks = EmptyDict
    /\ refs_chunks = EmptyDict
    /\ last_chunk = NoChunk
    /\ last_entry_ts = 0
    /\ files = EmptyDict
    /\ handles = [id \in HandleIds |-> NoHandle]
    /\ iters = [it \in IterIds |-> NoIter]
    /\ obs = [it \in IterIds |-> NoObs]
    /\ appended = << >>
    /\ res = [op |-> "create_varlen_series", status |-> "ok"]
    /\ \E size_struct \in size_structs, length_profile \in LengthProfiles :
          varlen = NewVarlen(size_struct, length_profile)
    /\ viters = [it \in VIterIds |-> NoVIter]

\* the same, with no thread inside a call
InitVarlenOf(size_structs) == InitVarlenDir(size_structs) /\ threads = << >>

InitVarlen == InitVarlenOf(SizeFields)

\* what no method of VarlenSeries or VarlenIterator changes
fixed == <<closed, cy3, gzip_level, max_entries_per_chunk, block_size, page_size, chunks,
           open_chunks, refs_chunks, last_chunk, last_entry_ts, files, handles, iters,
           obs, threads>>

\* varlen.append(timestamp, data)
VarlenAppend(timestamp, data) ==
    LET r == varlen_append(varlen, timestamp, data)
    IN  /\ ~varlen.closed
        /\ Len(appended) < MaxVarlenAppends
        /\ VFree = VIterIds
        /\ varlen' = r.v
        /\ appended' = IF r.status = "ok" THEN Append(appended, <<timestamp, data>>)
                       ELSE appended
        /\ res' = [op |-> "varlen_append", status |-> r.status,
                   timestamp |-> timestamp, data |-> data]
        /\ UNCHANGED <<fixed, viters>>

VarlenDoAppend == \E timestamp \in Timestamps, data \in VarlenDatas : VarlenAppend(timestamp, data)

\* it = varlen.iterate_range(start, stop, direct_bytes=True).  When the
\* constructor raises, nobody holds the object: __del__ closes it at once
\* where extension types run __del__, and never elsewhere.
VarlenIterateRange(start, stop, g) ==
    LET it == MinOf(VFree)
        V1 == [varlen EXCEPT !.references = @ + 1]
        r == NewVarlenIterator(varlen, start, stop, g)
    IN  /\ VFree # {}
        /\ varlen.references <= MaxVIters
        /\ IF r.status = "ok"
           THEN /\ varlen' = V1
                /\ viters' = [viters EXCEPT ![it] =
                                [st |-> "open", obj |-> r.viter, out |-> << >>,
                                 done |-> FALSE,
                                 whole |-> \A k \in 1 .. Len(appended) :
                                              start <= appended[k][1] /\ appended[k][1] <= stop]]
           ELSE /\ varlen' = IF cy3 THEN varlen ELSE V1
                /\ UNCHANGED viters
        /\ res' = [op |-> "varlen_iterate_range", status |-> r.status]
        /\ UNCHANGED <<fixed, appended>>

VarlenDoIterateRange ==
    \E start \in Timestamps, stop \in Timestamps, g \in Stray :
        VarlenIterateRange(start, stop, g)

\* VarlenIterator.close on object VI of series V
viter_close(V, VI) ==
    IF VI.closed THEN [v |-> V, viter |-> VI]
    ELSE [v |-> [V EXCEPT !.references = @ - 1], viter |-> [VI EXCEPT !.closed = TRUE]]

\* next(it): VarlenIterator.__next__ with direct_bytes, lines 382-391
VarlenNext(it, g) ==
    LET I == viters[it]
        r == varlen_get_next(varlen, I.obj, g)
        c == viter_close(varlen, r.viter)
        b == to_bytes(varlen, r.entry)
    IN  /\ I # NoVIter
        /\ ~I.done
        /\ IF r.entry = None
           THEN /\ varlen' = c.v
                /\ viters' = [viters EXCEPT ![it].obj = c.viter, ![it].done = TRUE]
                /\ res' = [op |-> "varlen_next", status |-> "StopIteration"]
           ELSE /\ varlen' = varlen
                /\ viters' = [viters EXCEPT
                                ![it].obj = r.viter,
                                ![it].out = IF b.status = "ok"
                                            THEN Append(@, <<entry_timestamp(varlen, r.entry, g),
                                                             b.data>>)
                                            ELSE @,
                                ![it].done = b.status # "ok"]
                /\ res' = [op |-> "varlen_next", status |-> b.status]
        /\ UNCHANGED <<fixed, appended>>

VarlenDoNext == \E it \in VIterIds, g \in Stray : VarlenNext(it, g)

\* it.close()
VarlenIterClose(it) ==
    LET c == viter_close(varlen, viters[it].obj)
    IN  /\ viters[it] # NoVIter
        /\ ~viters[it].obj.closed
        /\ varlen' = c.v
        /\ viters' = [viters EXCEPT ![it].obj = c.viter]
        /\ res' = [op |-> "varlen_iter_close", status |-> "ok"]
        /\ UNCHANGED <<fixed, appended>>

VarlenDoIterClose == \E it \in VIterIds : VarlenIterClose(it)

\* the caller lets go of a closed VarlenIterator
VarlenRelease(it) ==
    /\ viters[it] # NoVIter
    /\ viters[it].obj.closed
    /\ viters' = [viters EXCEPT ![it] = NoVIter]
    /\ res' = [op |-> "varlen_release", status |-> "ok"]
    /\ UNCHANGED <<fixed, appended, varlen>>

VarlenDoRelease == \E it \in VIterIds : VarlenRelease(it)

\* TimeSeries.close of the series under a VarlenSeries
CloseSubs(ss) == [k \in 1 .. Len(ss) |-> [ss[k] EXCEPT !.closed = TRUE]]

\* varlen.close(force)
VarlenClose(force) ==
    /\ IF varlen.closed
       THEN /\ varlen' = varlen
            /\ res' = [op |-> "varlen_close", status |-> "ok", force |-> force,
                       was_closed |-> TRUE]
       ELSE IF varlen.references # 0 /\ ~force
       THEN /\ varlen' = varlen
            /\ res' = [op |-> "varlen_close", status |-> "StillOpen", force |-> force,
                       was_closed |-> FALSE]
       ELSE /\ varlen' = [varlen EXCEPT !.closed = TRUE, !.series = CloseSubs(@)]
            /\ res' = [op |-> "varlen_close", status |-> "ok", force |-> force,
                       was_closed |-> FALSE]
    /\ UNCHANGED <<fixed, appended, viters>>

VarlenDoClose == \E force \in BOOLEAN : VarlenClose(force)

\* appends and reads of a VarlenSeries that stays open
NextVarlen ==
    \/ VarlenDoAppend
    \/ VarlenDoIterateRange
    \/ VarlenDoNext
    \/ VarlenDoIterClose
    \/ VarlenDoRelease

SpecVarlen == InitVarlen /\ [][NextVarlen]_vars

\* iterators and close() of a VarlenSeries whose values all have three bytes
NextVarlenClose ==
    \/ \E timestamp \in Timestamps : VarlenAppend(timestamp, VData(3))
    \/ VarlenDoIterateRange
    \/ VarlenDoNext
    \/ VarlenDoIterClose
    \/ VarlenDoRelease
    \/ VarlenDoClose

SpecVarlenClose == InitVarlen /\ [][NextVarlenClose]_vars

\* appends only
NextVarlenAppend == VarlenDoAppend

SpecVarlenAppend == InitVarlen /\ [][NextVarlenAppend]_vars

RECURSIVE Flatten(_)
Flatten(cs) == IF cs = << >> THEN << >> ELSE Head(cs) \o Flatten(Tail(cs))
Recs(S) == Flatten(S.chunks)

\* P[0] + ... + P[k] of length profile P, whose last element repeats
RECURSIVE ProfileSum(_, _)
ProfileSum(P, k) ==
    IF k < 0 THEN 0
    ELSE P[IF k + 1 > Len(P) THEN Len(P) ELSE k + 1] + ProfileSum(P, k - 1)

\* the smallest k with P[0] + ... + P[k] >= L
LastSegment(P, L) == MinOf({k \in 0 .. L : ProfileSum(P, k) >= L})

\* C13: a varlen append of L bytes at timestamp T that returns normally adds
\* exactly one record at T to root and to each sub-series 1..k, k the smallest
\* index with P[0] + ... + P[k] >= L; it creates the sub-series up to k that do
\* not exist yet and no other, and leaves the sub-series beyond k as they were.
C13_Step ==
    (res'.op = "varlen_append" /\ res'.status = "ok")
        => LET T == res'.timestamp
               k == LastSegment(varlen.length_profile, Len(res'.data))
               n == Len(varlen.series)
               n1 == Len(varlen'.series)
           IN  /\ n1 = IF k + 1 > n THEN k + 1 ELSE n
               /\ \A s \in 1 .. n1 :
                     LET before == IF s <= n THEN Recs(varlen.series[s]) ELSE << >>
                         after == Recs(varlen'.series[s])
                     IN  IF s <= k + 1
                         THEN /\ Len(after) = Len(before) + 1
                              /\ SubSeq(after, 1, Len(before)) = before
                              /\ after[Len(after)][1] = T
                         ELSE after = before

C13_VarlenSegments == [][C13_Step]_vars

\* a one byte value, then a five byte value that made sub-series 1 and 2 under
\* profile [1, 2] and put its record at the same timestamp into all three
C13_Witness ==
    /\ res.op = "varlen_append" /\ res.status = "ok"
    /\ varlen.length_profile = <<1, 2>>
    /\ Len(appended) = 2
    /\ Len(appended[1][2]) = 1
    /\ Len(appended[2][2]) = 5
    /\ Len(varlen.series) = 3
    /\ Len(Recs(varlen.series[1])) = 2
    /\ \A s \in 2 .. 3 : /\ Len(Recs(varlen.series[s])) = 1
                         /\ Recs(varlen.series[s])[1][1] = res.timestamp

\* C16: VarlenSeries.references always equals the number of VarlenIterators
\* made from the series and not closed yet.
C16_References == varlen.references = Cardinality(Unclosed)

\* C16, second part: close(force=false) raises StillOpen and leaves the series
\* open exactly when an unclosed VarlenIterator exists; close(force=true)
\* closes the series regardless.
C16_CloseStep ==
    (res'.op = "varlen_close" /\ ~res'.was_closed)
        => /\ res'.status = "StillOpen" <=> (~res'.force /\ Unclosed # {})
           /\ varlen'.closed <=> (res'.force \/ Unclosed = {})

C16_Close == [][C16_CloseStep]_vars

\* ------------------------------------------- threads that append concurrently
MaxThreads == 2     \* threads that call append on the same series
ThreadIds == 1 .. MaxThreads

\* a thread outside append; a thread that passed the checks of lines 651-656
\* and waits for, or is about to take, the write lock of line 658
Idle == [pc |-> "idle"]
AtLock(timestamp, data) == [pc |-> "lock", timestamp |-> timestamp, data |-> data]
Waiting == {t \in ThreadIds : threads[t] # Idle}

InitThreads ==
    /\ InitSeries
    /\ varlen = NoVarlen
    /\ viters = << >>
    /\ threads = [t \in ThreadIds |-> Idle]

\* thread t calls append(timestamp, data): lines 651-656, which run before the
\* lock is taken
ThreadAppendEnter(t, timestamp, data) ==
    LET status == IF closed THEN "InvalidState"
                  ELSE IF Len(data) # block_size THEN "ValueError"
                  ELSE IF timestamp <= last_entry_ts /\ last_entry_ts # 0 THEN "ValueError"
                  ELSE "ok"
    IN  /\ threads[t] = Idle
        /\ Len(appended) + Cardinality(Waiting) < MaxAppends
        /\ IF status = "ok"
           THEN /\ threads' = [threads EXCEPT ![t] = AtLock(timestamp, data)]
                /\ UNCHANGED res
           ELSE /\ res' = AppendRes(status)
                /\ UNCHANGED threads
        /\ UNCHANGED <<closed, settings, chunks, open_chunks, refs_chunks, last_chunk,
                       last_entry_ts, files, handles, iters, obs, appended>>

\* timestamps from 1 on: the series treats last_entry_ts = 0 as empty
ThreadDoAppendEnter ==
    \E t \in ThreadIds, timestamp \in Timestamps \ {0}, data \in Datas :
        ThreadAppendEnter(t, timestamp, data)

\* thread t takes the lock and runs lines 658-674 to the end
ThreadAppendLocked(t) ==
    /\ threads[t] # Idle
    /\ AppendLocked(threads[t].timestamp, threads[t].data)
    /\ threads' = [threads EXCEPT ![t] = Idle]

ThreadDoAppendLocked == \E t \in ThreadIds : ThreadAppendLocked(t)

NextThreads ==
    \/ ThreadDoAppendEnter
    \/ ThreadDoAppendLocked

SpecThreads == InitThreads /\ [][NextThreads]_vars

\* C14: when threads append to one series concurrently, an append whose
\* timestamp is not greater than the last stored timestamp at the moment it
\* is applied under the write lock is rejected with ValueError and stores
\* nothing, so that the stored timestamps stay strictly increasing.
C14_Step ==
    \A t \in ThreadIds :
        (threads[t] # Idle /\ threads'[t] = Idle)
            => /\ (Stored # << >> /\ threads[t].timestamp <= Stored[Len(Stored)][1])
                     => (res'.status = "ValueError" /\ Stored' = Stored)
               /\ StrictlyIncreasing(Stored')

C14_Serialized == [][C14_Step]_vars

\* ------------------------------- a reader and a writer on one normal chunk
\* One thread appends to the chunk, statement by statement (normal.pyx:80-91),
\* while another reads records with get_piece_at, as Iterator.next_item does.
MaxReads == 1       \* reads the reader thread starts per behaviour
MaxRaceAppends == 2 \* appends the writer thread starts per behaviour

Writer == threads.w
Reader == threads.r
FreshReader == [pc |-> "idle", index |-> Nil, ts |-> Nil, ret |-> None, reads |-> 0]

\* a normal chunk, in either access mode, and the two threads outside any call
InitRace ==
    /\ InitChunkFile
    /\ ~TheChunk.is_direct
    /\ varlen = NoVarlen
    /\ viters = << >>
    /\ threads = [w |-> Idle, r |-> FreshReader]

SetChunk(f, h) ==
    /\ files' = [files EXCEPT ![TheChunk.name] = f]
    /\ handles' = [handles EXCEPT ![MinOf(HandleIds)] = h]

still == <<closed, settings, chunks, open_chunks, refs_chunks, last_chunk, last_entry_ts,
           iters, obs>>

\* the writer calls append(timestamp, data): lines 77-81, extend() included
WriterBegin(timestamp, data) ==
    LET h == TheChunk
        ext == h.pointer >= h.file_size - FOOTER_SIZE - block_size_plus(h.block_size)
    IN  /\ Writer = Idle
        /\ Len(appended) <= MaxRaceAppends
        /\ res.status = "ok"
        /\ SetChunk(IF ext THEN ExtendFile(TheFile, h) ELSE TheFile,
                    IF ext THEN [h EXCEPT !.file_size = @ + h.page_size] ELSE h)
        /\ threads' = [threads EXCEPT !.w = [pc |-> "ts", timestamp |-> timestamp,
                                             data |-> data]]
        /\ UNCHANGED <<still, appended, res>>

WriterDoBegin ==
    \E timestamp \in Timestamps, b \in ByteVals : WriterBegin(timestamp, Fill(b, block_size))

\* a write through self.mmap that does not fit raises IndexError and ends append
WriterFails ==
    /\ threads' = [threads EXCEPT !.w = Idle]
    /\ res' = [op |-> "chunk_append", status |-> "IndexError"]
    /\ UNCHANGED <<still, files, handles, appended>>

\* line 84: self.mmap[self.pointer:ptr_end] = STRUCT_Q.pack(timestamp)
WriterTs ==
    LET v == PackLE(Writer.timestamp, 8)
    IN  /\ Writer # Idle /\ Writer.pc = "ts"
        /\ IF Fits(TheFile, TheChunk, TheChunk.pointer, v)
           THEN /\ SetChunk(WriteGrow(TheFile, TheChunk.pointer, v), TheChunk)
                /\ threads' = [threads EXCEPT !.w.pc = "data"]
                /\ UNCHANGED <<still, appended, res>>
           ELSE WriterFails

\* line 85: self.mmap[ptr_end:ptr_end+self.block_size] = data
WriterData ==
    LET ptr_end == TheChunk.pointer + TIMESTAMP_SIZE
    IN  /\ Writer # Idle /\ Writer.pc = "data"
        /\ IF Fits(TheFile, TheChunk, ptr_end, Writer.data)
           THEN /\ SetChunk(WriteGrow(TheFile, ptr_end, Writer.data), TheChunk)
                /\ threads' = [threads EXCEPT !.w.pc = "entries"]
                /\ UNCHANGED <<still, appended, res>>
           ELSE WriterFails

\* line 86: self.entries += 1
WriterEntries ==
    /\ Writer # Idle /\ Writer.pc = "entries"
    /\ SetChunk(TheFile, [TheChunk EXCEPT !.entries = @ + 1])
    /\ threads' = [threads EXCEPT !.w.pc = "footer"]
    /\ UNCHANGED <<still, appended, res>>

\* line 88: the entries count goes into the last four bytes
WriterFooter ==
    /\ Writer # Idle /\ Writer.pc = "footer"
    /\ SetChunk(WriteGrow(TheFile, TheChunk.file_size - FOOTER_SIZE,
                          PackLE(TheChunk.entries, 4)),
                TheChunk)
    /\ threads' = [threads EXCEPT !.w.pc = "fields"]
    /\ UNCHANGED <<still, appended, res>>

\* lines 90-92: max_ts, pointer, return
WriterEnd ==
    /\ Writer # Idle /\ Writer.pc = "fields"
    /\ SetChunk(TheFile, [TheChunk EXCEPT !.max_ts = Writer.timestamp,
                                          !.pointer = @ + block_size_plus(TheChunk.block_size)])
    /\ threads' = [threads EXCEPT !.w = Idle]
    /\ appended' = Append(appended, <<Writer.timestamp, Writer.data>>)
    /\ res' = [op |-> "chunk_append", status |-> "ok"]
    /\ UNCHANGED still

\* the reader calls get_piece_at(index): the check of line 445
ReaderBegin(index) ==
    /\ Reader.pc = "idle"
    /\ Reader.reads < MaxReads
    /\ threads' = [threads EXCEPT !.r =
                      [pc |-> IF index >= TheChunk.entries THEN "idle" ELSE "ts",
                       index |-> index, ts |-> Nil, ret |-> None, reads |-> @.reads + 1]]
    /\ UNCHANGED <<still, files, handles, appended, res>>

ReaderDoBegin == \E index \in 0 .. MaxRaceAppends + 1 : ReaderBegin(index)

\* lines 451-452: the timestamp is read
ReaderTs ==
    /\ Reader.pc = "ts"
    /\ threads' = [threads EXCEPT !.r.pc = "data",
                                  !.r.ts = TimestampAt(TheFile, TheChunk.block_size,
                                                       Reader.index)]
    /\ UNCHANGED <<still, files, handles, appended, res>>

\* line 453: the payload is read and the pair returned
ReaderData ==
    /\ Reader.pc = "data"
    /\ threads' = [threads EXCEPT !.r.pc = "idle",
                                  !.r.ret = <<Reader.ts,
                                              ValueAt(TheFile, TheChunk.block_size,
                                                      Reader.index)>>]
    /\ UNCHANGED <<still, files, handles, appended, res>>

NextRace ==
    \/ WriterDoBegin
    \/ WriterTs
    \/ WriterData
    \/ WriterEntries
    \/ WriterFooter
    \/ WriterEnd
    \/ ReaderDoBegin
    \/ ReaderTs
    \/ ReaderData

SpecRace == InitRace /\ [][NextRace]_vars

\* the records handed to append so far, the one being written included
Handed == IF Writer = Idle THEN appended
          ELSE Append(appended, <<Writer.timestamp, Writer.data>>)

\* C15: a reader of a chunk that is being appended to (mmap or descriptor
\* access, the append extending the file or not) gets for every index either
\* nothing or the complete timestamp and payload that append number index
\* was given; never a record that is only partly there.
C15_NoTornRead ==
    (Reader.pc = "idle" /\ Reader.ret # None)
        => /\ Reader.index < Len(Handed)
           /\ Reader.ret = Handed[Reader.index + 1]

\* ------------------------------------------------- appends and current value
\* append with timestamps from 1 on (the series treats last_entry_ts = 0 as
\* empty), and get_current_value
NextCurrent ==
    \/ \E timestamp \in Timestamps \ {0}, data \in Datas :
          SeriesAppend(timestamp, data) /\ UNCHANGED threads
    \/ DoGetCurrentValue

SpecCurrent == Init /\ [][NextCurrent]_vars

\* C17: get_current_value on an open series that holds records, in the normal
\* or the gzip layout and after any number of appends since the last chunk was
\* made, returns the record appended last; on an empty series it raises
\* ValueError.
C17_CurrentValue ==
    (res.op = "get_current_value" /\ ~closed)
        => IF appended = << >> THEN res.status = "ValueError"
           ELSE /\ res.status = "ok"
                /\ res.ret = appended[Len(appended)]

\* ------------------------------------------------------------------ trimming
\* the chunks a trim(timestamp) is due to delete after i deletions: two chunks
\* or more are left, the second starts below timestamp and nobody holds the
\* first
Deletable(i, timestamp) ==
    /\ Len(chunks) - i >= 2
    /\ chunks[i + 2][1] < timestamp
    /\ get_references_for(refs_chunks, chunks[i + 1][1]) = 0

\* the chunks trim(timestamp) took from the front of the list
Trimmed == SubSeq(chunks, 1, Len(chunks) - Len(chunks'))

\* C18: trim(timestamp) deletes chunks[0], file and list entry, for as long as
\* two chunks or more remain, chunks[1] starts below timestamp and chunks[0]
\* has no outstanding reference; it stops at the first chunk that fails this,
\* keeps the last chunk and removes no record stamped timestamp or later.
C18_Step ==
    \A timestamp \in Timestamps :
        (Trim(timestamp) /\ ~closed) =>
            LET k == Len(chunks) - Len(chunks')
            IN  /\ res'.status = "ok"
                /\ k >= 0
                /\ chunks' = SubSeq(chunks, k + 1, Len(chunks))
                /\ \A i \in 0 .. k - 1 : Deletable(i, timestamp)
                /\ ~Deletable(k, timestamp)
                /\ chunks # << >> => chunks' # << >>
                /\ DOMAIN files' = DOMAIN files \ {Trimmed[i][1] : i \in 1 .. k}
                /\ \A name \in DOMAIN files' : files'[name] = files[name]
                /\ \A i \in 1 .. k :
                       LET c == Trimmed[i]
                           recs == FileRecords(files[c[1]], c[2])
                       IN  \A j \in 1 .. Len(recs) : recs[j][1] < timestamp

C18_Trim == [][C18_Step]_vars

\* ------------------------------------------------------- closing the series
\* TimeSeries.sync: the metadata file is rewritten and the last chunk's mmap
\* is flushed, which raises ValueError on a closed mmap
series_sync ==
    IF closed THEN "InvalidState"
    ELSE IF last_chunk # NoChunk /\ ~handles[last_chunk].open THEN "ValueError"
    ELSE "ok"

DoSync ==
    /\ NoneClosed
    /\ res' = [op |-> "sync", status |-> series_sync]
    /\ UNCHANGED <<closed, params, chunks, open_chunks, refs_chunks, last_chunk,
                   last_entry_ts, files, handles, iters, obs, appended>>

\* a caller that appends one payload, reads through Iterators, syncs and
\* closes the series at any time, also while an Iterator holds a chunk
NextClose ==
    \/ (/\ FreeSlots = IterIds
        /\ \E timestamp \in Timestamps : SeriesAppend(timestamp, Fill(1, block_size))
        /\ UNCHANGED threads)
    \/ DoIterateRange
    \/ DoNextItem
    \/ DoIterClose
    \/ DoRelease
    \/ DoSync
    \/ DoClose

SpecClose == Init /\ [][NextClose]_vars

\* the fields of the series a call that fails, or does nothing, leaves alone
SeriesState == <<closed, chunks, open_chunks, refs_chunks, last_chunk, last_entry_ts,
                 files, handles, appended>>

\* C19: TimeSeries.close() on an open series returns with every chunk of
\* open_chunks closed, referenced or not, with open_chunks and refs_chunks
\* empty and closed set; close() on a closed series changes nothing; append
\* and sync on a closed series raise InvalidState.
C19_Step ==
    /\ (res'.op = "close" /\ ~closed) =>
           /\ res'.status = "ok"
           /\ closed'
           /\ open_chunks' = EmptyDict
           /\ refs_chunks' = EmptyDict
           /\ \A name \in DOMAIN open_chunks :
                  LET id == open_chunks[name]
                  IN  handles'[id] # NoHandle => ~handles'[id].open
    /\ (res'.op = "close" /\ closed) =>
           /\ res'.status = "ok"
           /\ UNCHANGED SeriesState
    /\ (res'.op \in {"append", "sync"} /\ closed) =>
           /\ res'.status = "InvalidState"
           /\ UNCHANGED SeriesState

C19_Close == [][C19_Step]_vars

\* a series closed while an Iterator held one of its chunks, then asked to
\* sync
C19_Witness ==
    /\ closed
    /\ res = [op |-> "sync", status |-> "InvalidState"]
    /\ \E it \in IterIds : iters[it].st = "open"
    /\ open_chunks = EmptyDict
    /\ last_chunk # NoChunk
    /\ ~handles[last_chunk].open

\* ----------------------------------------------------- searching in a chunk
\* the timestamps handed to find_left and find_right: every timestamp a record
\* can carry and one above them all
Probes == 0 .. MaxTs + 1

\* chunk.find_left(timestamp) and chunk.find_right(timestamp)
ChunkDoFind ==
    \E timestamp \in Probes :
        /\ res.status = "ok"
        /\ res' = [op |-> "find", status |-> "ok", timestamp |-> timestamp,
                   left |-> find_left(TheFile, TheChunk, timestamp),
                   right |-> find_right(TheFile, TheChunk, timestamp)]
        /\ UNCHANGED <<closed, params, chunks, open_chunks, refs_chunks, last_chunk,
                       last_entry_ts, files, handles, iters, obs, appended>>

NextFind == ChunkDoAppend \/ ChunkDoFind

SpecFind == InitChunk /\ [][NextFind]_vars

\* timestamp_at(i) of the chunk
ChunkTs(i) == TimestampAt(TheFile, TheChunk.block_size, i)

ChunkIncreasing ==
    \A i \in 0 .. TheChunk.entries - 2 : ChunkTs(i) < ChunkTs(i + 1)

\* the smallest index of a set of indexes, entries when the set is empty
FirstOf(at) == IF at = {} THEN TheChunk.entries ELSE MinOf(at)

\* the two bounds, and what they say about the ends of the chunk
C20_Bounds ==
    /\ res.left = FirstOf({i \in 0 .. TheChunk.entries - 1 : ChunkTs(i) >= res.timestamp})
    /\ res.right = FirstOf({i \in 0 .. TheChunk.entries - 1 : ChunkTs(i) > res.timestamp})

C20_Ends ==
    /\ res.left = TheChunk.entries <=> res.timestamp > TheChunk.max_ts
    /\ res.right = 0 <=> res.timestamp < TheChunk.min_ts

\* C20: on a chunk whose timestamps increase strictly, find_left(ts) is the
\* smallest index i with timestamp_at(i) >= ts and find_right(ts) the smallest
\* with timestamp_at(i) > ts, entries when there is none; find_left(ts) is
\* entries exactly when ts > max_ts and find_right(ts) is 0 exactly when
\* ts < min_ts.
C20_Find ==
    (res.op = "find" /\ ChunkIncreasing) => (C20_Bounds /\ C20_Ends)

\* ------------------------------------ chunk references under a VarlenSeries
\* In the specifications of this part refs_chunks holds the refs_chunks of the
\* series under the VarlenSeries: refs_chunks[k][c] is the count series k keeps
\* for its chunk c.  A VarlenIterator slot carries the object, the counts at the
\* time iterate_range was called, and the VarlenEntry objects not closed yet.
MaxVarlenRefs == 6      \* a count a read may reach

\* TimeSeries.incref_chunk / decref_chunk of series k for chunk c
SubIncref(R, k, c) ==
    IF k \in DOMAIN R /\ c \in DOMAIN R[k] THEN [R EXCEPT ![k][c] = @ + 1] ELSE R

SubDecref(R, k, c) ==
    IF k \in DOMAIN R /\ c \in DOMAIN R[k] THEN [R EXCEPT ![k][c] = @ - 1] ELSE R

\* a decref per chunk of cs: Iterator.close (lines 268-269)
RECURSIVE SubDecrefAll(_, _, _)
SubDecrefAll(R, k, cs) ==
    IF cs = << >> THEN R ELSE SubDecrefAll(SubDecref(R, k, Head(cs)), k, Tail(cs))

\* an incref per chunk of cs: open_chunk in the loop of iterate_range
RECURSIVE SubIncrefAll(_, _, _)
SubIncrefAll(R, k, cs) ==
    IF cs = << >> THEN R ELSE SubIncrefAll(SubIncref(R, k, Head(cs)), k, Tail(cs))

\* TimeSeries.append: the chunk it creates takes a reference, the chunk that
\* was last gives its one up (lines 663 and 670)
AppendRefs(R, V1) ==
    [k \in 1 .. Len(V1.series) |->
        LET old == IF k <= Len(R) THEN R[k] ELSE << >>
            nb == Len(old)
        IN  IF Len(V1.series[k].chunks) > nb
            THEN (IF nb > 0 THEN [old EXCEPT ![nb] = @ - 1] ELSE old) \o <<1>>
            ELSE old]

\* the counts after Iterator.next_item_pos on iterator I of series k gave r:
\* get_next gives up the chunk it leaves (line 279), next_item_pos takes a
\* reference to the chunk it returns (line 325)
next_item_pos_refs(R, k, I, r) ==
    LET fetch == I.cur = 0 \/ I.i = I.limit
        R1 == IF fetch /\ I.cur # 0 THEN SubDecref(R, k, I.cur) ELSE R
    IN  IF r.ret = None THEN R1 ELSE SubIncref(R1, k, r.iter.cur)

\* the counts after VarlenIterator.advance_series
advance_series_refs(V, VI, R, index, force, g) ==
    IF VI.iterators[index + 1] = NoIter /\ ~force THEN R
    ELSE LET I == VI.iterators[index + 1]
             r == sub_next_item_pos(V.series[index + 1], I, g)
             R1 == next_item_pos_refs(R, index + 1, I, r)
             old_chunk == VI.chunks[index + 1]
             R2 == IF old_chunk # Nil THEN SubDecref(R1, index + 1, old_chunk) ELSE R1
         IN  IF r.ret = None THEN SubDecrefAll(R2, index + 1, r.iter.chunks)
             ELSE R1

\* the counts after the loop of VarlenIterator.__init__, lines 328-330
RECURSIVE OpenSubItersRefs(_, _, _)
OpenSubItersRefs(R, its, k) ==
    IF k > Len(its) THEN R
    ELSE OpenSubItersRefs(SubIncrefAll(R, k, its[k].chunks), its, k + 1)

\* the counts after the loop of VarlenIterator.__init__, lines 331-333
RECURSIVE AdvanceAllRefs(_, _, _, _, _)
AdvanceAllRefs(V, VI, R, index, g) ==
    IF index >= Len(VI.iterators) THEN R
    ELSE AdvanceAllRefs(V, advance_series(V, VI, index, TRUE, g),
                        advance_series_refs(V, VI, R, index, TRUE, g), index + 1, g)

\* the counts after the loop of VarlenIterator.get_next, lines 372-378
RECURSIVE GetNextLoopRefs(_, _, _, _, _, _)
GetNextLoopRefs(V, VI, R, ts, i, g) ==
    IF i >= Len(VI.chunks) \/ VI.timestamps[i + 1] = Nil THEN R
    ELSE IF VI.timestamps[i + 1] = ts
    THEN GetNextLoopRefs(V, advance_series(V, VI, i, FALSE, g),
                         advance_series_refs(V, VI, R, i, FALSE, g), ts, i + 1, g)
    ELSE GetNextLoopRefs(V, VI, R, ts, i + 1, g)

\* VarlenEntry.__init__ (lines 36-39) and VarlenEntry.close (lines 262-263) on
\* the chunks <<series index, chunk>> of an entry
RECURSIVE EntryIncref(_, _)
EntryIncref(R, cs) ==
    IF cs = << >> THEN R ELSE EntryIncref(SubIncref(R, Head(cs)[1] + 1, Head(cs)[2]), Tail(cs))

RECURSIVE EntryDecref(_, _)
EntryDecref(R, cs) ==
    IF cs = << >> THEN R ELSE EntryDecref(SubDecref(R, Head(cs)[1] + 1, Head(cs)[2]), Tail(cs))

\* the counts after VarlenIterator.close (lines 414-419) on an open VI
RECURSIVE viter_close_refs(_, _, _)
viter_close_refs(VI, R, k) ==
    IF k > Len(VI.iterators) THEN R
    ELSE LET R1 == IF VI.iterators[k] # NoIter
                   THEN SubDecrefAll(R, k, VI.iterators[k].chunks) ELSE R
         IN  viter_close_refs(VI, R1, k + 1)

RECURSIVE viter_close_chunks(_, _, _)
viter_close_chunks(VI, R, k) ==
    IF k > Len(VI.chunks) THEN R
    ELSE viter_close_chunks(VI, IF VI.chunks[k] # Nil THEN SubDecref(R, k, VI.chunks[k])
                                ELSE R, k + 1)

RefsWithin(R) == \A k \in DOMAIN R : \A c \in DOMAIN R[k] : R[k][c] <= MaxVarlenRefs

still_series == <<closed, cy3, gzip_level, max_entries_per_chunk, block_size, page_size,
                  chunks, open_chunks, last_chunk, last_entry_ts, files, handles, iters,
                  obs, threads>>

\* varlen.append(timestamp, data) while nobody reads
RefsAppend(timestamp, data) ==
    LET r == varlen_append(varlen, timestamp, data)
    IN  /\ Len(appended) < MaxVarlenAppends
        /\ VFree = VIterIds
        /\ varlen' = r.v
        /\ refs_chunks' = AppendRefs(refs_chunks, r.v)
        /\ appended' = IF r.status = "ok" THEN Append(appended, <<timestamp, data>>)
                       ELSE appended
        /\ res' = [op |-> "varlen_append", status |-> r.status,
                   timestamp |-> timestamp, data |-> data]
        /\ UNCHANGED <<still_series, viters>>

\* references never depend on the bytes: a value that fits the root and one
\* that needs every series of the profile
RefsDoAppend ==
    \E timestamp \in Timestamps, data \in {VData(1), VData(MaxVarlenLen)} :
        RefsAppend(timestamp, data)

\* it = varlen.iterate_range(start, stop).  When the constructor raises, the
\* Iterators it made so far are closed by their __del__ where extension types
\* run __del__, and keep their references elsewhere.
RefsIterateRange(start, stop, g) ==
    LET it == MinOf(VFree)
        r == NewVarlenIterator(varlen, start, stop, g)
        o == OpenSubIters(varlen, start, stop, << >>)
        opened == OpenSubItersRefs(refs_chunks, o.iterators, 1)
        n == Len(varlen.series)
        begun == [st |-> "open", closed |-> FALSE,
                  positions |-> [k \in 1 .. n |-> Nil],
                  chunks |-> [k \in 1 .. n |-> Nil],
                  timestamps |-> [k \in 1 .. n |-> Nil],
                  iterators |-> o.iterators]
        R == IF r.status = "ok" THEN AdvanceAllRefs(varlen, begun, opened, 0, g)
             ELSE IF cy3 THEN refs_chunks ELSE opened
    IN  /\ VFree # {}
        /\ varlen.references <= MaxVIters
        /\ RefsWithin(R)
        /\ refs_chunks' = R
        /\ IF r.status = "ok"
           THEN /\ varlen' = [varlen EXCEPT !.references = @ + 1]
                /\ viters' = [viters EXCEPT ![it] =
                                [st |-> "open", obj |-> r.viter, refs0 |-> refs_chunks,
                                 held |-> << >>, got |-> 0]]
           ELSE /\ varlen' = IF cy3 THEN varlen ELSE [varlen EXCEPT !.references = @ + 1]
                /\ UNCHANGED viters
        /\ res' = [op |-> "varlen_iterate_range", status |-> r.status]
        /\ UNCHANGED <<still_series, appended>>

RefsDoIterateRange ==
    \E start \in Timestamps, stop \in Timestamps, g \in Stray :
        RefsIterateRange(start, stop, g)

\* entry = it.get_next()
RefsGetNext(it, g) ==
    LET I == viters[it]
        r == varlen_get_next(varlen, I.obj, g)
        R1 == GetNextLoopRefs(varlen, I.obj, refs_chunks, I.obj.timestamps[1], 0, g)
        R == IF r.entry = None THEN refs_chunks ELSE EntryIncref(R1, r.entry.chunks)
    IN  /\ I # NoVIter
        /\ ~I.obj.closed
        /\ RefsWithin(R)
        /\ refs_chunks' = R
        /\ viters' = IF r.entry = None THEN viters
                     ELSE [viters EXCEPT ![it].obj = r.viter,
                                         ![it].held = Append(@, r.entry.chunks),
                                         ![it].got = @ + 1]
        /\ res' = [op |-> "varlen_get_next",
                   status |-> IF r.entry = None THEN "none" ELSE "ok"]
        /\ UNCHANGED <<still_series, appended, varlen>>

RefsDoGetNext == \E it \in VIterIds, g \in Stray : RefsGetNext(it, g)

\* entry.close() on the entry returned first among those still open
RefsEntryClose(it) ==
    /\ viters[it] # NoVIter
    /\ viters[it].held # << >>
    /\ refs_chunks' = EntryDecref(refs_chunks, Head(viters[it].held))
    /\ viters' = [viters EXCEPT ![it].held = Tail(@)]
    /\ res' = [op |-> "varlen_entry_close", status |-> "ok"]
    /\ UNCHANGED <<still_series, appended, varlen>>

RefsDoEntryClose == \E it \in VIterIds : RefsEntryClose(it)

\* it.close()
RefsIterClose(it) ==
    LET VI == viters[it].obj
        c == viter_close(varlen, VI)
    IN  /\ viters[it] # NoVIter
        /\ ~VI.closed
        /\ varlen' = c.v
        /\ refs_chunks' = viter_close_chunks(VI, viter_close_refs(VI, refs_chunks, 1), 1)
        /\ viters' = [viters EXCEPT ![it].obj = c.viter]
        /\ res' = [op |-> "varlen_iter_close", status |-> "ok"]
        /\ UNCHANGED <<still_series, appended>>

RefsDoIterClose == \E it \in VIterIds : RefsIterClose(it)

\* a caller that appends, then reads through one VarlenIterator
NextVarlenRefs ==
    \/ RefsDoAppend
    \/ RefsDoIterateRange
    \/ RefsDoGetNext
    \/ RefsDoEntryClose
    \/ RefsDoIterClose

SpecVarlenRefs == InitVarlen /\ [][NextVarlenRefs]_vars

\* C21: when a VarlenIterator has been consumed, partly or fully, and closed,
\* and every VarlenEntry it returned has been closed, every chunk of every
\* series under the VarlenSeries has the reference count it had before
\* iterate_range was called.
C21_ReadReleases ==
    \A it \in VIterIds :
        (viters[it] # NoVIter /\ viters[it].obj.closed /\ viters[it].held = << >>)
            => refs_chunks = viters[it].refs0

\* ------------------------------------------------- reading a VarlenEntry
\* A VarlenEntry is kept as its chunks <<series index, chunk>>, its item_no and
\* its cache `data`: None until to_bytes() has filled it, then <<bytes>>.
NoEntry == [chunks |-> << >>, item_no |-> << >>, data |-> None]

\* what an int that was never assigned can hold
Unassigned == {0, MaxVarlenLen + 1}

\* Chunk.get_slice_of_piece_at through a VarlenEntry
EntrySliceOfPiece(V, E, segment, start, stop) ==
    LET piece == IF segment < Len(E.chunks) THEN EntryValue(V, E, segment) ELSE None
    IN  IF piece = None THEN [status |-> "IndexError", data |-> << >>]
        ELSE [status |-> "ok", data |-> Slice(piece, start, stop)]

\* VarlenEntry.slice, the loop of lines 180-186: the segment the read starts
\* in and start_reading_at, which keeps the value u it happened to hold unless
\* the loop assigns it
RECURSIVE SliceSeek(_, _, _, _, _)
SliceSeek(V, start, pointer, segment, u) ==
    IF pointer < start
    THEN LET next_chunk_len == get_length_for(V, segment)
         IN  IF next_chunk_len > start - pointer
             THEN [segment |-> segment, start_reading_at |-> start - pointer]
             ELSE SliceSeek(V, start, pointer + next_chunk_len, segment + 1, u)
    ELSE [segment |-> segment, start_reading_at |-> u]

\* VarlenEntry.slice, the loop of lines 195-207; chunk and chunk_len are those
\* of the segment the read started in
RECURSIVE SliceCopy(_, _, _, _, _, _, _, _, _)
SliceCopy(V, E, chunk, chunk_len, length, b, write_pointer, segment, at) ==
    IF write_pointer < length /\ Len(E.chunks) < segment
    THEN IF segment >= Len(E.item_no) THEN [status |-> "IndexError", data |-> << >>]
         ELSE LET offset == IF at.first THEN V.size_field ELSE 0
                  E1 == [E EXCEPT !.item_no[chunk + 1] = E.item_no[segment + 1]]
              IN  IF chunk_len - at.start_reading_at >= length - write_pointer
                  THEN LET r == EntrySliceOfPiece(V, E1, chunk, offset,
                                                  offset + length - write_pointer)
                       IN  IF r.status # "ok" THEN r
                           ELSE [status |-> "ok",
                                 data |-> Splice(b, write_pointer, length, r.data)]
                  ELSE LET r == EntrySliceOfPiece(V, E1, chunk, 0, chunk_len)
                       IN  IF r.status # "ok" THEN r
                           ELSE SliceCopy(V, E, chunk, chunk_len, length,
                                          Splice(b, write_pointer,
                                                 write_pointer + chunk_len, r.data),
                                          write_pointer + chunk_len, segment + 1,
                                          [first |-> FALSE, start_reading_at |-> 0])
    ELSE [status |-> "ValueError", data |-> << >>]

\* VarlenEntry.slice
entry_slice(V, E, start, stop, u) ==
    IF stop < start THEN [status |-> "ValueError", data |-> << >>]
    ELSE IF stop = start THEN [status |-> "ok", data |-> << >>]
    ELSE IF E.data # None THEN [status |-> "ok", data |-> Slice(E.data[1], start, stop)]
    ELSE LET s == SliceSeek(V, start, 0, 0, u)
             length == stop - start
         IN  IF s.segment >= Len(E.chunks) THEN [status |-> "IndexError", data |-> << >>]
             ELSE SliceCopy(V, E, s.segment, get_length_for(V, s.segment), length,
                            Zeros(length), 0, s.segment,
                            [first |-> TRUE, start_reading_at |-> s.start_reading_at])

\* VarlenEntry.get_byte_at, the loop of lines 145-152
RECURSIVE ByteSeek(_, _, _, _, _, _)
ByteSeek(V, E, index, pointer, segment, offset) ==
    IF pointer < index /\ segment < Len(E.chunks)
    THEN LET seg_len == get_length_for(V, segment)
             piece == EntryValue(V, E, segment)
             byte_index == offset + index - pointer
         IN  IF seg_len + pointer > index
             THEN \* Chunk.get_byte_of_piece
                  IF piece = None \/ byte_index >= Len(piece)
                  THEN [status |-> "undefined", byte |-> Nil]
                  ELSE [status |-> "ok", byte |-> piece[byte_index + 1]]
             ELSE ByteSeek(V, E, index, pointer + seg_len, segment + 1, 0)
    ELSE [status |-> "ValueError", byte |-> Nil]

\* VarlenEntry.get_byte_at
entry_get_byte_at(V, E, index) ==
    IF E.data # None
    THEN IF index < Len(E.data[1]) THEN [status |-> "ok", byte |-> E.data[1][index + 1]]
         ELSE [status |-> "IndexError", byte |-> Nil]
    ELSE ByteSeek(V, E, index, 0, 0, V.size_field)

\* the VarlenEntry the holder of iterator `it` got last
EntryOf(it) ==
    IF viters[it] # NoVIter /\ "entry" \in DOMAIN viters[it] THEN viters[it].entry
    ELSE NoEntry

WithEntry(I, VI, E, done) ==
    [st |-> I.st, obj |-> VI, out |-> I.out, done |-> done, whole |-> I.whole,
     entry |-> E]

\* entry = it.get_next()
EntryGetNext(it, g) ==
    LET I == viters[it]
        r == varlen_get_next(varlen, I.obj, g)
    IN  /\ I # NoVIter
        /\ ~I.done
        /\ viters' = [viters EXCEPT ![it] =
                        IF r.entry = None THEN WithEntry(I, I.obj, NoEntry, TRUE)
                        ELSE WithEntry(I, r.viter,
                                       [chunks |-> r.entry.chunks,
                                        item_no |-> r.entry.item_no, data |-> None],
                                       FALSE)]
        /\ res' = [op |-> "varlen_get_next",
                   status |-> IF r.entry = None THEN "none" ELSE "ok"]
        /\ UNCHANGED <<fixed, appended, varlen>>

EntryDoGetNext == \E it \in VIterIds, g \in Stray : EntryGetNext(it, g)

\* entry.to_bytes()
EntryToBytes(it) ==
    LET E == EntryOf(it)
        b == IF E.data # None THEN [status |-> "ok", data |-> E.data[1]]
             ELSE to_bytes(varlen, E)
    IN  /\ E # NoEntry
        /\ viters' = IF b.status = "ok" THEN [viters EXCEPT ![it].entry.data = <<b.data>>]
                     ELSE viters
        /\ res' = [op |-> "to_bytes", status |-> b.status]
        /\ UNCHANGED <<fixed, appended, varlen>>

EntryDoToBytes == \E it \in VIterIds : EntryToBytes(it)

\* entry.slice(start, stop)
EntrySlice(it, start, stop, u) ==
    LET r == entry_slice(varlen, EntryOf(it), start, stop, u)
    IN  /\ EntryOf(it) # NoEntry
        /\ res' = [op |-> "slice", status |-> r.status, ret |-> r.data, it |-> it,
                   start |-> start, stop |-> stop]
        /\ UNCHANGED <<fixed, appended, varlen, viters>>

EntryDoSlice ==
    \E it \in VIterIds, start \in 0 .. MaxVarlenLen, stop \in 0 .. MaxVarlenLen,
       u \in Unassigned : EntrySlice(it, start, stop, u)

\* entry.get_byte_at(index)
EntryGetByteAt(it, index) ==
    LET r == entry_get_byte_at(varlen, EntryOf(it), index)
    IN  /\ EntryOf(it) # NoEntry
        /\ res' = [op |-> "get_byte_at", status |-> r.status, ret |-> r.byte, it |-> it,
                   index |-> index]
        /\ UNCHANGED <<fixed, appended, varlen, viters>>

EntryDoGetByteAt ==
    \E it \in VIterIds, index \in 0 .. MaxVarlenLen + 1 : EntryGetByteAt(it, index)

\* a caller that appends, opens one VarlenIterator and reads the entries it
\* gets
\* it = varlen.iterate_range(0, MaxTs): every record
EntryDoIterateRange == \E g \in Stray : VarlenIterateRange(0, MaxTs, g)

\* varlen.append(timestamp, data) at the next timestamp
EntryDoAppend == \E data \in VarlenDatas : VarlenAppend(Len(appended) + 1, data)

NextVarlenEntry ==
    \/ EntryDoAppend
    \/ EntryDoIterateRange
    \/ EntryDoGetNext
    \/ EntryDoToBytes
    \/ EntryDoSlice
    \/ EntryDoGetByteAt

\* create_varlen_series, on a build where the choice of __del__ plays no part
InitEntry == InitVarlen /\ ~cy3

SpecVarlenEntry == InitEntry /\ [][NextVarlenEntry]_vars

\* the bytes of the entry a call was made on, by to_bytes
Whole(it) ==
    IF EntryOf(it).data # None THEN [status |-> "ok", data |-> EntryOf(it).data[1]]
    ELSE to_bytes(varlen, EntryOf(it))

\* C22: on a VarlenEntry of L bytes, slice(start, stop) with
\* 0 <= start <= stop <= L returns to_bytes()[start:stop], before to_bytes()
\* was called on the entry as well as after.
C22_Slice ==
    (/\ res.op = "slice"
     /\ Whole(res.it).status = "ok"
     /\ res.start <= res.stop
     /\ res.stop <= Len(Whole(res.it).data))
        => /\ res.status = "ok"
           /\ res.ret = Slice(Whole(res.it).data, res.start, res.stop)


\* C23: get_byte_at(i) returns byte i of to_bytes() for 0 <= i < L, before
\* to_bytes() was called on the entry as well as after, and raises ValueError
\* for i >= L.
C23_ByteAt ==
    (res.op = "get_byte_at" /\ Whole(res.it).status = "ok")
        => IF res.index < Len(Whole(res.it).data)
           THEN res.status = "ok" /\ res.ret = Whole(res.it).data[res.index + 1]
           ELSE res.status = "ValueError"


\* ------------------------------------------------- the longest entry
\* A length of up to 2^32 + 3 is kept as hi * 2^16 + lo, so that it stays
\* within the integers of the checker.
Wide(hi, lo) == [hi |-> hi, lo |-> lo]
WideOf(n) == Wide(n \div 65536, n % 65536)
WideLeq(a, b) == a.hi < b.hi \/ (a.hi = b.hi /\ a.lo <= b.lo)
WidePlus(W, n) == Wide(W.hi + (W.lo + n) \div 65536, (W.lo + n) % 65536)

\* cdef int data_len = len(data): the low 32 bits of the length, signed
CInt(W) ==
    IF W.hi % 65536 < 32768 THEN (W.hi % 65536) * 65536 + W.lo
    ELSE ((W.hi % 65536) - 65536) * 65536 + W.lo

\* TimeSeries.append_padded of data whose length is W on a series of block_size
\* bs, at a fresh timestamp: block_size - data_len zeros are added, computed
\* from the C int, and TimeSeries.append compares the real length, which is
\* block_size + (len(data) - data_len), with block_size
append_padded_length(bs, W) ==
    LET data_len == CInt(W)
    IN  IF data_len > bs THEN "ValueError"
        ELSE IF W # WideOf(IF data_len < 0 THEN 0 ELSE data_len) THEN "ValueError"
        ELSE "ok"

\* VarlenSeries.append of data whose length is W, at a fresh timestamp.  On the
\* long path add_series runs until current_maximum_length >= data_len, so every
\* segment finds its series.
append_length(V, W) ==
    LET data_len == CInt(W)
    IN  IF data_len > get_maximum_length(V) THEN "ValueError"
        ELSE IF data_len < get_length_for(V, 0)
        THEN append_padded_length(V.series[1].block_size, WidePlus(W, V.size_field))
        ELSE "ok"

\* the lengths offered: around each limit of get_maximum_length and of the C int
WideLengths ==
    {WideOf(n) : n \in {0, 1, 2, 254, 255, 256, 65534, 65535, 65536, 16777214, 16777215,
                        16777216, 2147483646, 2147483647}}
        \cup {Wide(32768, 0), Wide(32768, 1), Wide(65535, 65534), Wide(65535, 65535)}

\* varlen.append(timestamp, data) with len(data) = W at the next timestamp; the
\* bytes are kept when they are few and by their length otherwise
LengthAppend(W) ==
    LET small == W.hi = 0 /\ W.lo <= MaxVarlenLen
        timestamp == Len(appended) + 1
        r == varlen_append(varlen, timestamp, VData(W.lo))
        status == append_length(varlen, W)
    IN  /\ ~varlen.closed
        /\ Len(appended) < MaxVarlenAppends
        /\ varlen' = IF small THEN r.v ELSE varlen
        /\ appended' = IF status = "ok" THEN Append(appended, <<timestamp, W>>)
                       ELSE appended
        /\ res' = [op |-> "append_length", status |-> IF small THEN r.status ELSE status,
                   len |-> W, size_field |-> varlen.size_field]
        /\ UNCHANGED <<fixed, viters>>

LengthDoAppend == \E W \in WideLengths : LengthAppend(W)

InitLength == InitVarlenOf(1 .. 4)

SpecLength == InitLength /\ [][LengthDoAppend]_vars

\* the limit the documentation gives for a size_struct
DocumentedMaximum(size_field) ==
    IF size_field = 1 THEN WideOf(255)
    ELSE IF size_field = 2 THEN WideOf(65535)
    ELSE IF size_field = 3 THEN WideOf(16777215)
    ELSE Wide(65535, 65535)

\* C24: VarlenSeries.append accepts data of length L exactly when
\* L <= 2^(8 * size_field) - 1, that is 255, 65535, 16777215 and 4294967295
\* for size_field 1, 2, 3 and 4, and raises ValueError for longer data.
C24_MaximumLength ==
    res.op = "append_length"
        => IF WideLeq(res.len, DocumentedMaximum(res.size_field))
           THEN res.status = "ok"
           ELSE res.status = "ValueError"


\* C25: iterate_range(a, b) never yields a record whose timestamp lies outside
\* [a, b], whatever is stored and whatever a <= b is, ranges without a stored
\* record included.
C25_WithinRange ==
    \A it \in Held :
        obs[it].range[1] <= obs[it].range[2]
            => \A j \in 1 .. Len(obs[it].out) :
                  /\ obs[it].range[1] <= obs[it].out[j][1]
                  /\ obs[it].out[j][1] <= obs[it].range[2]


\* C26: an append that raises (InvalidState, ValueError, or AlreadyExists from
\* the creation of the next chunk) leaves chunks, open_chunks, refs, last_chunk
\* and last_entry_ts as they were before the call.
C26_Step ==
    (res'.op = "append" /\ res'.status # "ok")
        => UNCHANGED <<chunks, open_chunks, refs_chunks, last_chunk, last_entry_ts>>

C26_FailedAppend == [][C26_Step]_vars


\* a series whose chunks take every record a behaviour appends, in the hands of
\* the caller that appends, then reads
InitExhaust == InitSeriesOf({MaxAppends}) /\ Alone

SpecExhaust == InitExhaust /\ [][NextRead]_vars

\* C27: once next_item() has returned null on an Iterator, every later
\* next_item() on it returns null as well and changes no reference count.
C27_Step ==
    \A it \in IterIds :
        (/\ obs[it].done
         /\ iters[it].st = "open" /\ iters'[it].st = "open"
         /\ iters'[it] # iters[it])
            => /\ res'.op = "next_item" /\ res'.status = "ok"
               /\ obs'[it].out = obs[it].out
               /\ refs_chunks' = refs_chunks

C27_Exhausted == [][C27_Step]_vars


\* ------------------------------------ iterate_range beside another thread
\* One thread runs iterate_range statement by statement (series.pyx:514-534)
\* while another calls trim and close_chunks.  open_lock is taken inside
\* open_chunk only (line 384), once per chunk of the span.
Ranger == threads.r
InSpan(a, b, start, stop, ch_start, upper) ==
    [pc |-> "span", range |-> <<a, b>>, start |-> start, stop |-> stop,
     chunk_index |-> ch_start, upper |-> upper, got |-> << >>, refs0 |-> refs_chunks]

InitSpan ==
    /\ InitSeries
    /\ varlen = NoVarlen
    /\ viters = << >>
    /\ threads = [r |-> Idle]

\* append while no iterate_range runs; timestamps from 1 on
SpanDoAppend ==
    \E timestamp \in Timestamps \ {0}, data \in Payloads :
        /\ Ranger = Idle
        /\ FreeSlots = IterIds
        /\ SeriesAppend(timestamp, data)
        /\ UNCHANGED threads

SpanObs(a, b, refs0) ==
    [out |-> << >>, done |-> FALSE, refs0 |-> refs0, expect |-> InRange(Stored, a, b),
     range |-> <<a, b>>, whole |-> Covers(a, b)]

\* iterate_range(a, b), lines 514-529: the checks, the clamping and the two
\* chunk indices
SpanEnter(a, b) ==
    LET slot == MinOf(FreeSlots)
        start == IF a < chunks[1][1] THEN chunks[1][1] ELSE a
        stop == IF b > last_entry_ts THEN last_entry_ts ELSE b
        ch_start == get_index_of_chunk_for(chunks, start)
        ch_stop == get_index_of_chunk_for(chunks, stop)
    IN  /\ Ranger = Idle
        /\ FreeSlots # {}
        /\ ~closed
        /\ IF last_chunk = NoChunk
           THEN /\ iters' = [iters EXCEPT ![slot] = NewIterator(0, 0, << >>)]
                /\ obs' = [obs EXCEPT ![slot] = SpanObs(a, b, refs_chunks)]
                /\ res' = [op |-> "iterate_range", status |-> "ok"]
                /\ UNCHANGED threads
           ELSE IF a > b
           THEN /\ res' = [op |-> "iterate_range", status |-> "ValueError"]
                /\ UNCHANGED <<iters, obs, threads>>
           ELSE /\ threads' = [threads EXCEPT !.r = InSpan(a, b, start, stop, ch_start,
                                                           UIntInc(ch_stop))]
                /\ UNCHANGED <<iters, obs, res>>
        /\ UNCHANGED <<closed, settings, chunks, open_chunks, refs_chunks, last_chunk,
                       last_entry_ts, files, handles, appended>>

SpanDoEnter == \E a \in Timestamps, b \in Timestamps : SpanEnter(a, b)

\* one turn of the loop of lines 531-533, or line 534 after the last turn
SpanStep ==
    LET T == Ranger
        slot == MinOf(FreeSlots)
        c == chunks[T.chunk_index + 1]
        r == open_chunk(Cache, c[1], c[2], c[3])
    IN  /\ Ranger # Idle
        /\ IF T.chunk_index >= T.upper
           THEN /\ iters' = [iters EXCEPT ![slot] = NewIterator(T.start, T.stop, T.got)]
                /\ obs' = [obs EXCEPT ![slot] = SpanObs(T.range[1], T.range[2], T.refs0)]
                /\ res' = [op |-> "iterate_range", status |-> "ok"]
                /\ threads' = [threads EXCEPT !.r = Idle]
                /\ UNCHANGED <<open_chunks, refs_chunks, handles>>
           ELSE IF T.chunk_index >= Len(chunks)       \* self.chunks[chunk_index]
           THEN /\ res' = [op |-> "iterate_range", status |-> "IndexError"]
                /\ threads' = [threads EXCEPT !.r = Idle]
                /\ UNCHANGED <<iters, obs, open_chunks, refs_chunks, handles>>
           ELSE /\ r.chunk # NoChunk
                /\ RefsBounded(r.cache.refs)
                /\ open_chunks' = r.cache.oc
                /\ refs_chunks' = r.cache.refs
                /\ handles' = r.cache.hs
                /\ threads' = [threads EXCEPT !.r.got = Append(@, r.chunk),
                                              !.r.chunk_index = @ + 1]
                /\ UNCHANGED <<iters, obs, res>>
        /\ UNCHANGED <<closed, settings, chunks, last_chunk, last_entry_ts, files,
                       appended>>

\* the other thread
SpanDoTrim == \E timestamp \in Timestamps : Trim(timestamp)
SpanDoCloseChunks == DoCloseChunks

NextSpan ==
    \/ SpanDoAppend
    \/ SpanDoEnter
    \/ SpanStep
    \/ SpanDoTrim
    \/ SpanDoCloseChunks

SpecSpan == InitSpan /\ [][NextSpan]_vars

\* C28: iterate_range opens and references its whole span under the
\* open-chunk lock in one piece: between the computation of the chunk indices
\* and the last reference taken, no trim() or close_chunks() of another thread
\* takes effect.
C28_Step ==
    (Ranger # Idle /\ Ranger.chunk_index < Ranger.upper /\ threads' = threads)
        => UNCHANGED <<chunks, open_chunks, refs_chunks, files>>

C28_SpanAtomic == [][C28_Step]_vars


\* ------------------------------------- metadata writes beside an append
\* One thread appends; the statements of append under `with self.lock,
\* self.open_lock` (series.pyx:658-674) are entered in one step and left in
\* another.  A second thread calls sync, mark_synced_up_to and set_metadata.
\* threads holds the appending thread w, the fields last_entry_synced and
\* metadata of the TimeSeries object, and the metadata file as last written.
Locked(timestamp, data) == [pc |-> "locked", timestamp |-> timestamp, data |-> data]
Metadatas == {None, <<1>>}
MetaOf(obj) == [last_entry_synced |-> obj.last_entry_synced, metadata |-> obj.metadata]

InitSync ==
    /\ InitSeries
    /\ varlen = NoVarlen
    /\ viters = << >>
    /\ threads = [w |-> Idle,
                  obj |-> [last_entry_synced |-> 0, metadata |-> None],
                  file |-> [last_entry_synced |-> 0, metadata |-> None]]

\* TimeSeries.get_metadata, the part that changes, then write_meta_at
sync_metadata(obj) == MetaOf(obj)

\* append(timestamp, data) up to and including the acquisition of the locks
WriterEnter(timestamp, data) ==
    LET status == IF closed THEN "InvalidState"
                  ELSE IF Len(data) # block_size THEN "ValueError"
                  ELSE IF timestamp <= last_entry_ts /\ last_entry_ts # 0 THEN "ValueError"
                  ELSE "locked"
    IN  /\ threads.w = Idle
        /\ Len(appended) < MaxAppends
        /\ res' = AppendRes(status)
        /\ threads' = IF status = "locked"
                      THEN [threads EXCEPT !.w = Locked(timestamp, data)]
                      ELSE threads
        /\ UNCHANGED <<closed, settings, chunks, open_chunks, refs_chunks, last_chunk,
                       last_entry_ts, files, handles, iters, obs, appended>>

WriterDoEnter ==
    \E timestamp \in Timestamps \ {0}, data \in Datas : WriterEnter(timestamp, data)

\* the statements under the locks, and their release
WriterLeave ==
    /\ threads.w # Idle
    /\ AppendLocked(threads.w.timestamp, threads.w.data)
    /\ threads' = [threads EXCEPT !.w = Idle]

\* sync() by the second thread
MetaSync ==
    /\ res' = [op |-> "sync", status |-> series_sync]
    /\ threads' = IF closed THEN threads
                  ELSE [threads EXCEPT !.file = sync_metadata(threads.obj)]
    /\ UNCHANGED <<closed, settings, chunks, open_chunks, refs_chunks, last_chunk,
                   last_entry_ts, files, handles, iters, obs, appended>>

\* mark_synced_up_to(timestamp) by the second thread
MetaMarkSyncedUpTo(timestamp) ==
    LET obj == [threads.obj EXCEPT !.last_entry_synced = timestamp]
    IN  /\ res' = [op |-> "mark_synced_up_to", status |-> "ok"]
        /\ threads' = [threads EXCEPT !.obj = obj, !.file = sync_metadata(obj)]
        /\ UNCHANGED <<closed, settings, chunks, open_chunks, refs_chunks, last_chunk,
                       last_entry_ts, files, handles, iters, obs, appended>>

MetaDoMarkSyncedUpTo == \E timestamp \in Timestamps : MetaMarkSyncedUpTo(timestamp)

\* set_metadata(new_meta) by the second thread
MetaSetMetadata(new_meta) ==
    LET obj == [threads.obj EXCEPT !.metadata = new_meta]
    IN  /\ res' = [op |-> "set_metadata", status |-> "ok"]
        /\ threads' = [threads EXCEPT !.obj = obj, !.file = sync_metadata(obj)]
        /\ UNCHANGED <<closed, settings, chunks, open_chunks, refs_chunks, last_chunk,
                       last_entry_ts, files, handles, iters, obs, appended>>

MetaDoSetMetadata == \E new_meta \in Metadatas : MetaSetMetadata(new_meta)

NextSync ==
    \/ WriterDoEnter
    \/ WriterLeave
    \/ MetaSync
    \/ MetaDoMarkSyncedUpTo
    \/ MetaDoSetMetadata

SpecSync == InitSync /\ [][NextSync]_vars

MetaOps == {"sync", "mark_synced_up_to", "set_metadata"}

\* C29: sync(), mark_synced_up_to() and set_metadata() write the metadata
\* while they hold the write lock of the series, so none of them runs between
\* the start and the end of the critical section of a concurrent append.
C29_Step ==
    (threads.w # Idle /\ threads'.w = threads.w) => res'.op \notin MetaOps

C29_MetaLocked == [][C29_Step]_vars


\* ------------------------------------------- extend when mmap.resize fails
\* NormalChunk.extend on a chunk in mmap mode whose mmap.resize raises
\* OSError(ENOMEM): the page is written to the file, the chunk switches to
\* AlternativeMMap with a new, unlocked file_lock_object, and the finally
\* clause releases that lock because it is set by now (normal.pyx:57-58):
\* threading.Lock.release on an unlocked lock raises RuntimeError.
ExtendNoMemory(f, h) ==
    <<ExtendFile(f, h),
      [h EXCEPT !.file_size = h.file_size + h.page_size, !.descriptor = TRUE],
      "RuntimeError">>

\* NormalChunk.append; enomem tells whether a resize of the mmap would fail
\* with ENOMEM
NormalAppendResize(f, h, timestamp, data, enomem) ==
    LET ext == h.pointer >= h.file_size - FOOTER_SIZE - block_size_plus(h.block_size)
    IN  IF ext /\ ~h.descriptor /\ enomem THEN ExtendNoMemory(f, h)
        ELSE NormalAppend(f, h, timestamp, data)

\* chunk.append(timestamp, data) with data of block_size bytes
ResizeDoAppend ==
    \E timestamp \in Timestamps, b \in ByteVals, enomem \in BOOLEAN :
        LET data == Fill(b, block_size)
            ext == TheChunk.pointer >= TheChunk.file_size - FOOTER_SIZE
                                       - block_size_plus(TheChunk.block_size)
            r == NormalAppendResize(TheFile, TheChunk, timestamp, data, enomem)
        IN  /\ Len(appended) <= MaxChunkAppends
            /\ res.status = "ok"
            /\ files' = [files EXCEPT ![TheChunk.name] = r[1]]
            /\ handles' = [handles EXCEPT ![MinOf(HandleIds)] = r[2]]
            /\ appended' = IF r[3] = "ok" THEN Append(appended, <<timestamp, data>>)
                           ELSE appended
            /\ res' = [op |-> "chunk_append", status |-> r[3],
                       record |-> <<timestamp, data>>,
                       enomem |-> ext /\ ~TheChunk.descriptor /\ enomem,
                       lock |-> "unlocked"]
            /\ UNCHANGED <<closed, params, chunks, open_chunks, refs_chunks, last_chunk,
                           last_entry_ts, iters, obs>>

\* a normal chunk, in either access mode
InitResize == InitChunk /\ ~TheChunk.is_direct

SpecResize == InitResize /\ [][ResizeDoAppend]_vars

\* C30: when mmap.resize fails with out-of-memory while a normal chunk in mmap
\* mode is extended, the chunk switches to descriptor-based access without
\* raising, the append completes with the record stored and the footer
\* updated, and the lock of the chunk is left unlocked.
C30_ResizeFails ==
    (res.op = "chunk_append" /\ res.enomem)
        => /\ res.status = "ok"
           /\ TheChunk.descriptor
           /\ TheChunk.entries = Len(appended)
           /\ appended[Len(appended)] = res.record
           /\ UnpackLE(Slice(TheFile, Len(TheFile) - FOOTER_SIZE, Len(TheFile)), 4)
                 = TheChunk.entries
           /\ res.lock = "unlocked"


\* --------------------------------------------------- mapping a chunk file
\* errno of the OSError mmap.mmap raises, 0 when it maps; 13 stands for every
\* errno the code does not name
MmapErrnos == {0, 11, 12, 13, 19, 75}

\* Chunk.__init__, lines 190-203, on handle h read from the file: the access
\* mode, or Corruption with the file closed
chunk_init_mmap(h, use_descriptor_access, errno) ==
    IF use_descriptor_access THEN [h |-> [h EXCEPT !.descriptor = TRUE], status |-> "ok"]
    ELSE IF errno = 0 THEN [h |-> [h EXCEPT !.descriptor = FALSE], status |-> "ok"]
    ELSE IF errno \in {11, 12} THEN [h |-> [h EXCEPT !.descriptor = TRUE], status |-> "ok"]
    ELSE [h |-> [h EXCEPT !.open = FALSE, !.closed = TRUE], status |-> "Corruption"]

\* Chunk.switch_to_mmap_based_access
switch_to_mmap_based_access(h, errno) ==
    IF ~h.descriptor THEN [h |-> h, status |-> "ok"]
    ELSE IF errno = 0 THEN [h |-> [h EXCEPT !.descriptor = FALSE], status |-> "ok"]
    ELSE IF errno \in {11, 12, 19, 75} THEN [h |-> h, status |-> "ok"]
    ELSE [h |-> [h EXCEPT !.open = FALSE, !.closed = TRUE], status |-> "Corruption"]

\* Chunk.switch_to_descriptor_based_access
switch_to_descriptor_based_access(h) == [h EXCEPT !.descriptor = TRUE]

\* chunk = NormalChunk(None, path, page_size, use_descriptor_access) on the
\* file of the chunk, in place of the object held before
MapOpen(use_descriptor_access, errno) ==
    LET h0 == [OpenHandle(TheFile, page_size, FALSE) EXCEPT !.attached = FALSE]
        r == chunk_init_mmap(h0, use_descriptor_access, errno)
    IN  /\ handles' = [handles EXCEPT ![MinOf(HandleIds)] = r.h]
        /\ res' = [op |-> "chunk_open", status |-> r.status, errno |-> errno,
                   mmap_mode |-> ~use_descriptor_access]
        /\ UNCHANGED <<closed, params, chunks, open_chunks, refs_chunks, last_chunk,
                       last_entry_ts, files, iters, obs, appended>>

MapDoOpen ==
    \E use_descriptor_access \in BOOLEAN, errno \in MmapErrnos :
        MapOpen(use_descriptor_access, errno)

\* chunk.switch_to_mmap_based_access() on a chunk that is open
MapSwitchToMmap(errno) ==
    LET r == switch_to_mmap_based_access(TheChunk, errno)
    IN  /\ TheChunk.open
        /\ handles' = [handles EXCEPT ![MinOf(HandleIds)] = r.h]
        /\ res' = [op |-> "switch_to_mmap", status |-> r.status, errno |-> errno,
                   mmap_mode |-> TheChunk.descriptor]
        /\ UNCHANGED <<closed, params, chunks, open_chunks, refs_chunks, last_chunk,
                       last_entry_ts, files, iters, obs, appended>>

MapDoSwitchToMmap == \E errno \in MmapErrnos : MapSwitchToMmap(errno)

\* chunk.switch_to_descriptor_based_access() on a chunk that is open
MapSwitchToDescriptor ==
    /\ TheChunk.open
    /\ handles' = [handles EXCEPT ![MinOf(HandleIds)] =
                     switch_to_descriptor_based_access(TheChunk)]
    /\ res' = [op |-> "switch_to_descriptor", status |-> "ok", errno |-> 0,
               mmap_mode |-> FALSE]
    /\ UNCHANGED <<closed, params, chunks, open_chunks, refs_chunks, last_chunk,
                   last_entry_ts, files, iters, obs, appended>>

\* chunk.append between the openings, on a chunk that is open.  A chunk
\* opened on a file whose footer was overwritten by a record takes the bytes
\* of the record for its entry count and would write far beyond the file:
\* appends are followed while the count is that of the records written.
MaxMapAppends == 2
MapDoAppend ==
    /\ TheChunk.open
    /\ TheChunk.entries <= Len(appended)
    /\ Len(appended) < MaxMapAppends
    /\ ChunkDoAppend

NextMapping ==
    \/ MapDoAppend
    \/ MapDoOpen
    \/ MapDoSwitchToMmap
    \/ MapSwitchToDescriptor

SpecMapping == InitResize /\ [][NextMapping]_vars

\* C31: when a chunk is opened in mmap mode and the mapping fails with EAGAIN
\* (11), ENOMEM (12), ENODEV (19) or EOVERFLOW (75), the chunk opens in
\* descriptor-based mode without error; with any other mapping error the open
\* fails with Corruption and the file handle is closed.
C31_MappingFallback ==
    (res.op = "chunk_open" /\ res.mmap_mode /\ res.errno # 0)
        => IF res.errno \in {11, 12, 19, 75}
           THEN res.status = "ok" /\ TheChunk.descriptor /\ TheChunk.open
           ELSE res.status = "Corruption" /\ ~TheChunk.open


\* ------------------------------------------------ create_chunk on a directory
\* the three layouts create_chunk writes, and the file each of them lives in
Layouts == {"normal", "direct", "gzip"}
ChunkStem == "chunk"
ChunkPath(layout) ==
    CASE layout = "normal" -> "chunk"
      [] layout = "direct" -> "chunk.direct"
      [] layout = "gzip" -> "chunk.gz"

\* a file of the directory: what gzip.open(..).read(), or open(..).read(),
\* gives back, and whether the bytes on disk are a gzip stream
DiskFile(bytes, gzip_compression_level) ==
    [gzip |-> gzip_compression_level # 0, bytes |-> bytes]

\* create_chunk(None, path, timestamp, data, page_size, use_direct_mode=..,
\* gzip_compression_level=..) on the directory dir, path being ChunkStem
create_chunk(dir, timestamp, data, psize, use_direct_mode, gzip_compression_level) ==
    LET path == IF gzip_compression_level = 0 /\ use_direct_mode THEN ChunkPath("direct")
                ELSE IF gzip_compression_level # 0 THEN ChunkPath("gzip")
                ELSE ChunkStem
        f == NewChunkFile(timestamp, data, psize, use_direct_mode)
    IN  IF ChunkStem \in DOMAIN dir THEN [dir |-> dir, status |-> "AlreadyExists"]
        ELSE IF data = << >> THEN [dir |-> dir, status |-> "ValueError"]
        ELSE [dir |-> DictSet(dir, path, DiskFile(f, gzip_compression_level)),
              status |-> "ok"]

\* the directory before any chunk was made
InitMakerDir == [p \in {} |-> DiskFile(<< >>, 0)]

MakerCreate(layout, timestamp, data) ==
    LET direct == layout # "normal"
        level == IF layout = "gzip" THEN 1 ELSE 0
        r == create_chunk(files, timestamp, data, page_size, direct, level)
        h == OpenHandle(r.dir[ChunkPath(layout)].bytes, page_size, direct)
    IN  /\ files' = r.dir
        /\ handles' = IF r.status = "ok"
                      THEN [handles EXCEPT ![MinOf(HandleIds)] =
                               [h EXCEPT !.attached = FALSE]]
                      ELSE handles
        /\ res' = [op |-> "create_chunk", status |-> r.status, layout |-> layout,
                   existed |-> ChunkPath(layout) \in DOMAIN files,
                   empty |-> data = << >>, before |-> files]
        /\ UNCHANGED <<closed, params, chunks, open_chunks, refs_chunks, last_chunk,
                       last_entry_ts, iters, obs, appended>>

MakerDoCreate ==
    \E layout \in Layouts, timestamp \in Timestamps, b \in ByteVals,
       n \in {0, block_size} :
        MakerCreate(layout, timestamp, Fill(b, n))

InitMaker ==
    /\ closed = FALSE
    /\ gzip_level = 0
    /\ cy3 \in BOOLEAN
    /\ max_entries_per_chunk = 1
    /\ block_size \in ChunkBlockSizes
    /\ page_size \in ChunkPageSizes
    /\ chunks = << >>
    /\ open_chunks = EmptyDict
    /\ refs_chunks = EmptyDict
    /\ last_chunk = NoChunk
    /\ last_entry_ts = 0
    /\ iters = [it \in IterIds |-> NoIter]
    /\ obs = [it \in IterIds |-> NoObs]
    /\ res = [op |-> "none", status |-> "ok"]
    /\ files = InitMakerDir
    /\ handles = [id \in HandleIds |-> NoHandle]
    /\ appended = << >>
    /\ Alone

NextMaker == MakerDoCreate

SpecMaker == InitMaker /\ [][NextMaker]_vars

\* C32: in each of the three layouts, create_chunk on a file that exists
\* raises AlreadyExists and leaves the directory as it was; create_chunk with
\* empty data raises ValueError (AlreadyExists where the file exists) and
\* creates no file
C32_CreateRefused ==
    res.op = "create_chunk" =>
        /\ res.existed => res.status = "AlreadyExists" /\ files = res.before
        /\ res.empty => /\ res.status \in {"ValueError", "AlreadyExists"}
                        /\ files = res.before
        /\ (res.empty /\ res.before = InitMakerDir) => res.status = "ValueError"


\* ------------------------------------------- closing and opening a series
\* The directory of the series outlives the TimeSeries object: files holds the
\* chunk files, chunks their names and layouts as os.listdir shows them, and
\* threads holds the metadata file (file), the fields last_entry_synced and
\* metadata of the TimeSeries object (obj), and what was cut off the newest
\* chunk file while no object had it open (cut, cutstate).

\* create_series: the metadata written for the new series.  gzip_level 0 and
\* metadata None stand for a key that is absent, which is how they are read
\* back (metadata.get('gzip_level', 0), metadata.get('metadata')).
create_series_meta ==
    [block_size |-> block_size,
     max_entries_per_chunk |-> max_entries_per_chunk,
     last_entry_synced |-> 0,
     page_size |-> page_size,
     gzip_level |-> gzip_level,
     metadata |-> None]

\* TimeSeries.get_metadata: what sync_metadata writes
get_metadata(obj) ==
    [block_size |-> block_size,
     max_entries_per_chunk |-> max_entries_per_chunk,
     last_entry_synced |-> obj.last_entry_synced,
     page_size |-> page_size,
     gzip_level |-> 0,
     metadata |-> obj.metadata]

InitReopen ==
    /\ InitSeries
    /\ varlen = NoVarlen
    /\ viters = << >>
    /\ threads = [obj |-> [last_entry_synced |-> 0, metadata |-> None],
                  file |-> create_series_meta,
                  cut |-> << >>,
                  cutstate |-> "intact"]

\* what the caller of TimeSeries can read off the object
Readable ==
    [block_size |-> block_size,
     max_entries_per_chunk |-> max_entries_per_chunk,
     page_size |-> page_size,
     gzip_level |-> gzip_level,
     last_entry_synced |-> threads.obj.last_entry_synced,
     metadata |-> threads.obj.metadata]

\* os.listdir without the metadata file, parsed and sorted (lines 333-347)
Listing ==
    LET names == KeyList(DOMAIN files)
        EntryOfName(name) == CHOOSE c \in Range(chunks) : c[1] = name
    IN  [k \in 1 .. Len(names) |-> EntryOfName(names[k])]

\* TimeSeries(path, name) on the directory of a series that was closed
series_init ==
    LET meta == threads.file
        last == Listing[Len(Listing)]
        is_direct == last[2]
        is_gzip == last[3]
        level == IF is_gzip THEN meta.gzip_level ELSE 0
        f == files[last[1]]
        h == OpenHandle(f, meta.page_size, is_direct)
        \* get_timestamp_at of a normal chunk is a cpdef without an except
        \* clause: its struct.error is dropped, and 0 returned, unless cy3
        dropped == ~is_direct /\ ~cy3 /\ h.max_ts = -1
        status == IF Listing = << >> THEN "ok"
                  ELSE IF is_gzip /\ level = 0 THEN "FileNotFoundError"
                  ELSE IF Len(f) < HEADER_SIZE + TIMESTAMP_SIZE THEN "Corruption"
                  ELSE IF h.max_ts = -1 /\ ~dropped THEN "struct.error"
                  ELSE "ok"
        chunk == [h EXCEPT !.name = last[1],
                           !.max_ts = IF dropped THEN 0 ELSE @,
                           !.descriptor = is_direct]
        id == MinOf(HandleIds)
    IN  [status |-> status,
         empty |-> Listing = << >>,
         meta |-> meta,
         chunk |-> IF status = "ok" /\ Listing # << >> THEN chunk ELSE NoHandle,
         id |-> id]

ReopenOpen ==
    LET r == series_init
        named == r.chunk # NoHandle
    IN  /\ closed
        /\ FreeSlots = IterIds
        /\ res' = [op |-> "reopen", status |-> r.status, cut |-> threads.cutstate,
                   before |-> Readable]
        /\ IF r.status # "ok"
           THEN UNCHANGED <<closed, settings, chunks, open_chunks, refs_chunks, last_chunk,
                            last_entry_ts, files, handles, iters, obs, appended, threads>>
           ELSE /\ closed' = FALSE
                /\ block_size' = r.meta.block_size
                /\ max_entries_per_chunk' = r.meta.max_entries_per_chunk
                /\ page_size' = r.meta.page_size
                /\ gzip_level' = r.meta.gzip_level
                /\ threads' = [threads EXCEPT
                                 !.obj = [last_entry_synced |-> r.meta.last_entry_synced,
                                          metadata |-> r.meta.metadata],
                                 !.cutstate = IF @ = "cut" THEN "damaged" ELSE @]
                /\ chunks' = Listing
                /\ open_chunks' = IF named THEN DictSet(EmptyDict, r.chunk.name, r.id)
                                  ELSE EmptyDict
                /\ refs_chunks' = IF named THEN DictSet(EmptyDict, r.chunk.name, 1)
                                  ELSE EmptyDict
                /\ handles' = [id \in HandleIds |->
                                 IF named /\ id = r.id THEN r.chunk ELSE NoHandle]
                /\ last_chunk' = IF named THEN r.id ELSE NoChunk
                /\ last_entry_ts' = IF named THEN r.chunk.max_ts ELSE 0
                /\ UNCHANGED <<cy3, varlen, viters, files, iters, obs, appended>>

ReopenDoAppend ==
    /\ ~closed
    /\ \E timestamp \in Timestamps : SeriesAppend(timestamp, Fill(1, block_size))
    /\ UNCHANGED threads

ReopenDoClose == ~closed /\ DoClose

\* sync(), mark_synced_up_to(last_entry_ts) and set_metadata(new_meta)
ReopenSync ==
    /\ ~closed
    /\ res' = [op |-> "sync", status |-> series_sync]
    /\ threads' = [threads EXCEPT !.file = get_metadata(threads.obj)]
    /\ UNCHANGED <<closed, settings, chunks, open_chunks, refs_chunks, last_chunk,
                   last_entry_ts, files, handles, iters, obs, appended>>

ReopenMarkSyncedUpTo ==
    LET obj == [threads.obj EXCEPT !.last_entry_synced = last_entry_ts]
    IN  /\ ~closed
        /\ res' = [op |-> "mark_synced_up_to", status |-> "ok"]
        /\ threads' = [threads EXCEPT !.obj = obj, !.file = get_metadata(obj)]
        /\ UNCHANGED <<closed, settings, chunks, open_chunks, refs_chunks, last_chunk,
                       last_entry_ts, files, handles, iters, obs, appended>>

ReopenSetMetadata ==
    \E new_meta \in Metadatas :
        LET obj == [threads.obj EXCEPT !.metadata = new_meta]
        IN  /\ ~closed
            /\ res' = [op |-> "set_metadata", status |-> "ok"]
            /\ threads' = [threads EXCEPT !.obj = obj, !.file = get_metadata(obj)]
            /\ UNCHANGED <<closed, settings, chunks, open_chunks, refs_chunks, last_chunk,
                           last_entry_ts, files, handles, iters, obs, appended>>

\* while the series is closed, the newest chunk file, of the normal layout,
\* loses its last FOOTER_SIZE bytes
ReopenTruncate ==
    LET last == Listing[Len(Listing)]
        f == files[last[1]]
    IN  /\ closed
        /\ threads.cutstate = "intact"
        /\ Listing # << >>
        /\ ~last[2]
        /\ files' = [files EXCEPT ![last[1]] = SubSeq(f, 1, Len(f) - FOOTER_SIZE)]
        /\ threads' = [threads EXCEPT !.cut = SubSeq(f, Len(f) - FOOTER_SIZE + 1, Len(f)),
                                      !.cutstate = "cut"]
        /\ res' = [op |-> "truncate", status |-> "ok"]
        /\ UNCHANGED <<closed, settings, chunks, open_chunks, refs_chunks, last_chunk,
                       last_entry_ts, handles, iters, obs, appended>>

\* the bytes cut off are written back
ReopenRestore ==
    LET last == Listing[Len(Listing)]
    IN  /\ closed
        /\ threads.cutstate = "cut"
        /\ files' = [files EXCEPT ![last[1]] = @ \o threads.cut]
        /\ threads' = [threads EXCEPT !.cut = << >>, !.cutstate = "restored"]
        /\ res' = [op |-> "restore", status |-> "ok"]
        /\ UNCHANGED <<closed, settings, chunks, open_chunks, refs_chunks, last_chunk,
                       last_entry_ts, handles, iters, obs, appended>>

NextReopen ==
    \/ ReopenDoAppend
    \/ ReopenDoClose
    \/ ReopenOpen
    \/ ReopenSync
    \/ ReopenMarkSyncedUpTo
    \/ ReopenSetMetadata
    \/ ReopenTruncate
    \/ ReopenRestore

SpecReopen == InitReopen /\ [][NextReopen]_vars

\* C33: opening a series whose newest chunk file, of the normal layout, lost
\* its last four bytes raises Corruption; once the four bytes are written
\* back, opening the series succeeds.
C33_TruncatedFooter ==
    res.op = "reopen" =>
        /\ res.cut = "cut" => res.status = "Corruption"
        /\ (res.cut = "restored" /\ res.before.gzip_level = 0) => res.status = "ok"


\* C37: closing a series and opening it again gives the records appended and
\* the block_size, max_entries_per_chunk, page_size, gzip_level,
\* last_entry_synced and metadata the series had when it was closed, also
\* after sync, mark_synced_up_to or set_metadata rewrote the metadata file.
C37_ReopenSame ==
    (res.op = "reopen" /\ res.cut = "intact")
        => /\ res.status = "ok"
           /\ Readable = res.before
           /\ Stored = appended


\* C34: while the series is open and has a chunk, last_chunk is a key of
\* open_chunks and its reference count is at least one.
C34_LastChunkHeld ==
    (~closed /\ last_chunk # NoChunk)
        => LET name == handles[last_chunk].name
           IN  /\ name \in DOMAIN open_chunks
               /\ open_chunks[name] = last_chunk
               /\ name \in DOMAIN refs_chunks
               /\ refs_chunks[name] >= 1


\* C35: get_current_value() leaves refs_chunks, open_chunks, chunks and
\* last_entry_ts of the series as they were, however often it is called.
C35_Step ==
    res'.op = "get_current_value"
        => UNCHANGED <<refs_chunks, open_chunks, chunks, last_entry_ts>>

C35_CurrentValuePure == [][C35_Step]_vars


\* Database.create_series accepts block_size up to page_size + 8
AcceptedSizes == block_size <= page_size + TIMESTAMP_SIZE

\* C36: in a chunk of the normal layout whose block_size the database
\* accepts, after every append the records end where the footer begins or
\* before: HEADER_SIZE + entries * (TIMESTAMP_SIZE + block_size) is at most
\* file_size - FOOTER_SIZE.
C36_RecordsBelowFooter ==
    (AcceptedSizes /\ ~TheChunk.is_direct /\ res.op = "chunk_append" /\ res.status = "ok")
        => /\ TheChunk.file_size = Len(TheFile)
           /\ HEADER_SIZE + TheChunk.entries * block_size_plus(TheChunk.block_size)
                <= TheChunk.file_size - FOOTER_SIZE


\* ------------------------------------------------- trimming a varlen series
MaxTrimAppends == 4   \* appends to the varlen series that is trimmed

\* the loop of TimeSeries.trim on a series kept as records, none of whose
\* chunks but the last is referred to (lines 417-429)
RECURSIVE SubTrimLoop(_, _)
SubTrimLoop(cs, timestamp) ==
    IF Len(cs) >= 2 /\ timestamp > cs[2][1][1] THEN SubTrimLoop(Tail(cs), timestamp)
    ELSE cs

\* TimeSeries.trim on a series kept as records
SubTrim(S, timestamp) ==
    IF Len(S.chunks) = 1 THEN S ELSE [S EXCEPT !.chunks = SubTrimLoop(@, timestamp)]

\* VarlenSeries.trim
varlen_trim(V, timestamp) ==
    [V EXCEPT !.series = [k \in DOMAIN V.series |-> SubTrim(V.series[k], timestamp)]]

\* threads keeps the timestamp of the trim made (0: none yet) and whether an
\* iterator was opened
InitVarlenTrim ==
    /\ InitVarlenDir({1})
    /\ threads = [trim |-> 0, read |-> FALSE]

\* varlen.append(timestamp, data) at the next timestamp, before any read
TrimDoAppend ==
    \E data \in VarlenDatas :
        LET timestamp == Len(appended) + 1
            r == varlen_append(varlen, timestamp, data)
        IN  /\ ~threads.read
            /\ Len(appended) < MaxTrimAppends
            /\ varlen' = r.v
            /\ appended' = IF r.status = "ok" THEN Append(appended, <<timestamp, data>>)
                           ELSE appended
            /\ res' = [op |-> "varlen_append", status |-> r.status,
                       timestamp |-> timestamp, data |-> data]
            /\ UNCHANGED <<closed, cy3, gzip_level, max_entries_per_chunk, block_size,
                           page_size, chunks, open_chunks, refs_chunks, last_chunk,
                           last_entry_ts, files, handles, iters, obs, threads, viters>>

\* varlen.trim(timestamp), before any iterator took a reference to a chunk
TrimDoTrim ==
    \E timestamp \in 1 .. MaxTrimAppends + 1 :
        /\ ~threads.read
        /\ threads.trim = 0
        /\ varlen' = varlen_trim(varlen, timestamp)
        /\ threads' = [threads EXCEPT !.trim = timestamp]
        /\ res' = [op |-> "varlen_trim", status |-> "ok"]
        /\ UNCHANGED <<closed, cy3, gzip_level, max_entries_per_chunk, block_size,
                       page_size, chunks, open_chunks, refs_chunks, last_chunk,
                       last_entry_ts, files, handles, iters, obs, appended, viters>>

\* it = varlen.iterate_range(0, MaxTrimAppends + 1, direct_bytes=True)
TrimDoIterateRange ==
    \E g \in Stray :
        LET it == MinOf(VFree)
            r == NewVarlenIterator(varlen, 0, MaxTrimAppends + 1, g)
        IN  /\ VFree # {}
            /\ ~threads.read
            /\ r.status = "ok"
            /\ varlen' = [varlen EXCEPT !.references = @ + 1]
            /\ viters' = [viters EXCEPT ![it] =
                            [st |-> "open", obj |-> r.viter, out |-> << >>,
                             done |-> FALSE, whole |-> TRUE]]
            /\ threads' = [threads EXCEPT !.read = TRUE]
            /\ res' = [op |-> "varlen_iterate_range", status |-> r.status]
            /\ UNCHANGED <<closed, cy3, gzip_level, max_entries_per_chunk, block_size,
                           page_size, chunks, open_chunks, refs_chunks, last_chunk,
                           last_entry_ts, files, handles, iters, obs, appended>>

NextVarlenTrim ==
    \/ TrimDoAppend
    \/ TrimDoTrim
    \/ TrimDoIterateRange
    \/ VarlenDoNext

SpecVarlenTrim == InitVarlenTrim /\ [][NextVarlenTrim]_vars

\* C38: after VarlenSeries.trim(t), every entry an iterate_range over the
\* whole range yields has the timestamp and exactly the bytes of an append.
C38_TrimKeepsBytes ==
    \A it \in VIterIds :
        (viters[it] # NoVIter /\ threads.trim # 0)
            => /\ \A k \in DOMAIN viters[it].out : viters[it].out[k] \in Range(appended)
               /\ res.op = "varlen_next" => res.status \in {"ok", "StopIteration"}


\* ------------------------------------------------ closing a chunk on its own
\* chunk.close(force) on the chunk opened without a series
CloseChunkDoClose ==
    \E force \in BOOLEAN :
        LET r == chunk_close(Cache, MinOf(HandleIds), force)
        IN  /\ handles' = r.cache.hs
            /\ res' = [op |-> "chunk_close", status |-> r.status,
                       shut |-> ~TheChunk.open]
            /\ UNCHANGED <<closed, params, chunks, open_chunks, refs_chunks, last_chunk,
                           last_entry_ts, files, iters, obs, appended>>

\* chunk.append(timestamp, data): NormalChunk.append tests the closed flag
\* (normal.pyx:76-77), DirectChunk.append does not; a write through a closed
\* mmap or file raises ValueError
closed_chunk_append(f, h, timestamp, data) ==
    IF ~h.is_direct /\ h.closed THEN <<f, h, "InvalidState">>
    ELSE IF ~h.open THEN <<f, h, "ValueError">>
    ELSE ChunkAppend(f, h, timestamp, data)

CloseChunkDoAppend ==
    \E timestamp \in Timestamps, b \in ByteVals :
        LET data == Fill(b, block_size)
            r == closed_chunk_append(TheFile, TheChunk, timestamp, data)
        IN  /\ Len(appended) <= MaxChunkAppends
            /\ res.status \in {"ok", "ValueError", "InvalidState"}
            /\ files' = [files EXCEPT ![TheChunk.name] = r[1]]
            /\ handles' = [handles EXCEPT ![MinOf(HandleIds)] = r[2]]
            /\ appended' = IF r[3] = "ok" THEN Append(appended, <<timestamp, data>>)
                           ELSE appended
            /\ res' = [op |-> "chunk_append", status |-> r[3], shut |-> ~TheChunk.open]
            /\ UNCHANGED <<closed, params, chunks, open_chunks, refs_chunks, last_chunk,
                           last_entry_ts, iters, obs>>

NextChunkClose == CloseChunkDoAppend \/ CloseChunkDoClose

SpecChunkClose == InitChunk /\ [][NextChunkClose]_vars

\* C40: once Chunk.close() has succeeded the chunk is flagged closed: another
\* close() returns without raising, and append raises InvalidState.
C40_ClosedFlag ==
    /\ ~TheChunk.open => TheChunk.closed
    /\ (res.op = "chunk_close" /\ res.shut) => res.status = "ok"
    /\ (res.op = "chunk_append" /\ res.shut) => res.status = "InvalidState"


\* ------------------------------------------------------ the locks of a series
\* Threads call append, iterate_range, next_item, Iterator.close,
\* close_chunks, trim, disable_mmap and enable_mmap on one open series whose
\* chunk is open.  What is followed here is every statement that takes or
\* releases self.lock, self.open_lock (both threading.RLock, series.pyx:290-291)
\* or the file_lock_object of the chunk (threading.Lock, for AlternativeMMap
\* only), and the access mode of the chunk, which decides whether there is a
\* file_lock_object.  The records stored play no part in which locks are
\* taken, so the files stay as they are.
\* threads.th[t] is the call thread t is in: the operation, the step it is
\* about to make and whether it holds the file lock ("stale": the lock object
\* it holds was replaced).  threads.lock and threads.open_lock are the RLocks,
\* threads.file_lock is the owner of the file_lock_object (0: nobody).
LockOps == {"append", "iterate_range", "next_item", "iter_close", "close_chunks",
            "trim", "disable_mmap", "enable_mmap"}
IdleThread == [op |-> "idle", i |-> 0, file |-> "none"]
FreeRLock == [owner |-> 0, count |-> 0]

\* `with self.open_lock, self.lock` in place of line 658
append_locks_reversed == <<"open_lock", "lock">>

\* `with self.lock, self.open_lock` of TimeSeries.append (series.pyx:658)
append_locks == <<"lock", "open_lock">>

\* `with self.lock, self.open_lock` of disable_mmap and enable_mmap
mmap_locks == <<"lock", "open_lock">>

\* leaving a with statement releases its locks in reverse
ReleaseOf(name) == IF name = "lock" THEN "unlock" ELSE "unopen"
Unwind(locks) == [k \in 1 .. Len(locks) |-> ReleaseOf(locks[Len(locks) + 1 - k])]

\* the lock statements of each operation, in program order
lock_plan(op) ==
    CASE op = "append" ->
           \* extend() and the writes through self.mmap of NormalChunk.append
           append_locks \o <<"file_lock", "extend", "unfile",
                             "file_lock", "write", "unfile">> \o Unwind(append_locks)
      [] op = "iterate_range" -> <<"open_lock", "body", "unopen">>   \* open_chunk
      [] op = "next_item" -> <<"file_lock", "body", "unfile">>   \* AlternativeMMap.__getitem__
      [] op = "iter_close" -> <<"body">>
      [] op = "close_chunks" ->
           \* Chunk.close takes open_lock again
           <<"open_lock", "open_lock", "body", "unopen", "unopen">>
      [] op = "trim" -> <<"open_lock", "body", "unopen">>
      [] op = "disable_mmap" -> mmap_locks \o <<"switch_descriptor">> \o Unwind(mmap_locks)
      [] op = "enable_mmap" -> mmap_locks \o <<"switch_mmap">> \o Unwind(mmap_locks)

\* the series after create_series and one append, its chunk in either
\* access mode
InitLocks ==
    /\ closed = FALSE
    /\ gzip_level = 0
    /\ cy3 \in BOOLEAN
    /\ max_entries_per_chunk = MaxM
    /\ block_size \in BlockSizes
    /\ page_size \in PageSizes
    /\ iters = [it \in IterIds |-> NoIter]
    /\ obs = [it \in IterIds |-> NoObs]
    /\ res = [op |-> "init", status |-> "ok"]
    /\ \E b \in ByteVals, descriptor \in BOOLEAN :
          LET data == Fill(b, block_size)
              f == NewChunkFile(1, data, page_size, FALSE)
              id == MinOf(HandleIds)
          IN  /\ files = DictSet(EmptyDict, 1, f)
              /\ handles = [k \in HandleIds |->
                              IF k = id
                              THEN [OpenHandle(f, page_size, FALSE)
                                      EXCEPT !.descriptor = descriptor]
                              ELSE NoHandle]
              /\ chunks = <<(<<1, FALSE, FALSE>>)>>
              /\ open_chunks = DictSet(EmptyDict, 1, id)
              /\ refs_chunks = DictSet(EmptyDict, 1, 1)
              /\ last_chunk = id
              /\ last_entry_ts = 1
              /\ appended = <<(<<1, data>>)>>
    /\ varlen = NoVarlen
    /\ viters = << >>
    /\ threads = [th |-> [t \in ThreadIds |-> IdleThread],
                  lock |-> FreeRLock,
                  open_lock |-> FreeRLock,
                  file_lock |-> 0]

Busy(t) == threads.th[t] # IdleThread
StepOf(t) == lock_plan(threads.th[t].op)[threads.th[t].i]
Descriptor == handles[last_chunk].descriptor

\* RLock.acquire and RLock.release by thread t
CanAcquire(l, t) == l.owner \in {0, t}
Acquired(l, t) == [owner |-> t, count |-> l.count + 1]
Released(l) == IF l.count = 1 THEN FreeRLock ELSE [l EXCEPT !.count = @ - 1]

\* thread t, after the step it made; an exception takes it to the end of the
\* with statement
Moved(T, t, raised) ==
    LET n == Len(lock_plan(T.th[t].op))
        j == IF raised THEN n - 1 ELSE T.th[t].i + 1
    IN  IF j > n THEN [T EXCEPT !.th[t] = IdleThread] ELSE [T EXCEPT !.th[t].i = j]

\* the file_lock_object is replaced, or dropped: who held it holds a lock
\* nobody else refers to
Replaced(T) ==
    [T EXCEPT !.file_lock = 0,
              !.th = [t \in ThreadIds |->
                        IF T.th[t].file = "held" THEN [T.th[t] EXCEPT !.file = "stale"]
                        ELSE T.th[t]]]

\* can thread t make its next step?
CanAdvance(t) ==
    /\ Busy(t)
    /\ CASE StepOf(t) = "lock" -> CanAcquire(threads.lock, t)
         [] StepOf(t) = "open_lock" -> CanAcquire(threads.open_lock, t)
         [] StepOf(t) = "file_lock" -> ~Descriptor \/ threads.file_lock = 0
         [] OTHER -> TRUE

\* thread t calls an operation
LockCall(t, op) ==
    /\ ~Busy(t)
    /\ threads' = [threads EXCEPT !.th[t] = [op |-> op, i |-> 1, file |-> "none"]]
    /\ UNCHANGED <<closed, settings, chunks, open_chunks, refs_chunks, last_chunk,
                   last_entry_ts, files, handles, iters, obs, appended, res>>

LockDoCall == \E t \in ThreadIds, op \in LockOps : LockCall(t, op)

\* thread t makes the next step of its call.  enomem: mmap.resize fails with
\* ENOMEM in extend(); errno: what mmap.mmap fails with in enable_mmap (0: it
\* does not fail).
LockAdvance(t, enomem, errno) ==
    LET s == StepOf(t)
        h == handles[last_chunk]
        m == switch_to_mmap_based_access(h, errno)
        \* extend() in mmap mode: the chunk becomes descriptor based and the
        \* finally clause releases the new, unlocked lock: RuntimeError
        failing == s = "extend" /\ ~h.descriptor /\ enomem
    IN  /\ CanAdvance(t)
        /\ threads' =
             CASE s = "lock" ->
                    Moved([threads EXCEPT !.lock = Acquired(@, t)], t, FALSE)
               [] s = "open_lock" ->
                    Moved([threads EXCEPT !.open_lock = Acquired(@, t)], t, FALSE)
               [] s = "unlock" ->
                    Moved([threads EXCEPT !.lock = Released(@)], t, FALSE)
               [] s = "unopen" ->
                    Moved([threads EXCEPT !.open_lock = Released(@)], t, FALSE)
               [] s = "file_lock" ->
                    IF Descriptor
                    THEN Moved([threads EXCEPT !.file_lock = t, !.th[t].file = "held"],
                               t, FALSE)
                    ELSE Moved(threads, t, FALSE)
               [] s = "unfile" ->
                    Moved([threads EXCEPT
                             !.file_lock = IF threads.th[t].file = "held" THEN 0 ELSE @,
                             !.th[t].file = "none"], t, FALSE)
               [] s = "extend" ->
                    IF failing THEN Moved(Replaced(threads), t, TRUE)
                    ELSE Moved(threads, t, FALSE)
               [] s = "switch_descriptor" ->
                    Moved(IF h.descriptor THEN threads ELSE Replaced(threads), t, FALSE)
               [] s = "switch_mmap" ->
                    Moved(IF h.descriptor /\ ~m.h.descriptor THEN Replaced(threads)
                          ELSE threads, t, FALSE)
               [] OTHER -> Moved(threads, t, FALSE)
        /\ handles' =
             CASE failing -> [handles EXCEPT ![last_chunk].descriptor = TRUE]
               [] s = "switch_descriptor" ->
                    [handles EXCEPT ![last_chunk] = switch_to_descriptor_based_access(h)]
               [] s = "switch_mmap" -> [handles EXCEPT ![last_chunk] = m.h]
               [] OTHER -> handles
        /\ res' = CASE failing -> [op |-> "append", status |-> "RuntimeError"]
                    [] s = "switch_mmap" -> [op |-> "enable_mmap", status |-> m.status]
                    [] s \in {"write", "body", "switch_descriptor"} ->
                         [op |-> threads.th[t].op, status |-> "ok"]
                    [] OTHER -> res
        /\ UNCHANGED <<closed, settings, chunks, open_chunks, refs_chunks, last_chunk,
                       last_entry_ts, files, iters, obs, appended>>

Advance(t) == \E enomem \in BOOLEAN, errno \in MmapErrnos : LockAdvance(t, enomem, errno)

LockDoAdvance == \E t \in ThreadIds : Advance(t)

NextLocks == LockDoCall \/ LockDoAdvance

\* a thread inside a call keeps running, and a lock that is free again and
\* again is eventually given to a thread that waits for it
SpecLocks ==
    InitLocks /\ [][NextLocks]_vars /\ \A t \in ThreadIds : SF_vars(Advance(t))

\* what thread t holds
HoldsLock(t) == threads.lock.owner = t
HoldsOpenLock(t) == threads.open_lock.owner = t
HoldsFileLock(t) == threads.th[t].file = "held"
Quiet(t) == ~Busy(t) /\ ~HoldsLock(t) /\ ~HoldsOpenLock(t) /\ threads.file_lock # t

\* the write lock before the open-chunk lock before the lock of a chunk
LockOrder ==
    \A t \in ThreadIds :
        Busy(t) =>
            /\ (StepOf(t) = "lock" /\ ~HoldsLock(t))
                  => (~HoldsOpenLock(t) /\ ~HoldsFileLock(t))
            /\ (StepOf(t) = "open_lock" /\ ~HoldsOpenLock(t)) => ~HoldsFileLock(t)

\* some thread can go on whenever some thread is inside a call
NoDeadlock == (\E t \in ThreadIds : Busy(t)) => \E t \in ThreadIds : CanAdvance(t)

=============================================================================
